---- MODULE Spec2Model ----
(***************************************************************************)
(* cpudetect: the CPUID decode engine.                                     *)
(*                                                                         *)
(* One detection pass (CpuInfo::detect, src/src/lib.rs) runs ten decoders  *)
(* in the order of the struct literal; each decoder is a function of the   *)
(* probe results cpuid(leaf, subleaf).  The model keeps the probe function *)
(* (hw), the build profile (overflow checks on or off), the position of    *)
(* the pass (pc), the events the pass has issued so far (trace: every      *)
(* CPUID execution and every answer of the leaf-support gate, in program   *)
(* order) and the snapshot fields decoded so far (info).                   *)
(*                                                                         *)
(* A u32 is kept as two 16-bit halves, [hi, lo], so that no intermediate   *)
(* value needs more than 31 bits; wider values (u64, exact products) are   *)
(* little-endian byte strings.                                             *)
(***************************************************************************)
EXTENDS Integers, Sequences, FiniteSets, TLC

VARIABLES
    hw,      \* the probe function: <<leaf, subleaf>> -> [eax, ebx, ecx, edx]
    build,   \* "debug" (overflow checks panic) or "release" (they wrap)
    pc,      \* position of CpuInfo::detect: the next decoder, "done" or "panic";
             \* "api" before and "returned" after a call of the cpuid.rs interface
    trace,   \* events issued so far, in program order
    info,    \* the CpuInfo fields decoded so far
    panic,   \* "none", or the message of the panic that ended the pass
    call     \* the last call of the public cpuid.rs interface and its result

vars == <<hw, build, pc, trace, info, panic, call>>

-----------------------------------------------------------------------------
(* 32-bit words *)

\* The u32 hi * 2^16 + lo.
W(hi, lo) == [hi |-> hi, lo |-> lo]

Zero == W(0, 0)

RECURSIVE Pow2(_)
Pow2(n) == IF n = 0 THEN 1 ELSE 2 * Pow2(n - 1)

\* Bitwise AND of two naturals.
RECURSIVE BitAnd(_, _)
BitAnd(a, b) ==
    IF a = 0 \/ b = 0 THEN 0
    ELSE (a % 2) * (b % 2) + 2 * BitAnd(a \div 2, b \div 2)

\* a & b on u32.
WAnd(a, b) == W(BitAnd(a.hi, b.hi), BitAnd(a.lo, b.lo))

\* a >> n on u32, 0 <= n <= 31 (logical shift).
WShr(a, n) ==
    IF n >= 16 THEN W(0, a.hi \div Pow2(n - 16))
    ELSE W(a.hi \div Pow2(n), (a.lo \div Pow2(n)) + (a.hi % Pow2(n)) * Pow2(16 - n))

\* 1u32 << n, 0 <= n <= 31.
WOneShl(n) == IF n >= 16 THEN W(Pow2(n - 16), 0) ELSE W(0, Pow2(n))

\* a - 1 on u32, wrapping.
WDec(a) ==
    IF a.lo > 0 THEN W(a.hi, a.lo - 1)
    ELSE IF a.hi > 0 THEN W(a.hi - 1, 65535)
    ELSE W(65535, 65535)

\* a + 1 on u32, wrapping.
WInc(a) ==
    IF a.lo < 65535 THEN W(a.hi, a.lo + 1)
    ELSE IF a.hi < 65535 THEN W(a.hi + 1, 0)
    ELSE Zero

\* a <= b and a < b on u32.
WLe(a, b) == a.hi < b.hi \/ (a.hi = b.hi /\ a.lo <= b.lo)
WLt(a, b) == a.hi < b.hi \/ (a.hi = b.hi /\ a.lo < b.lo)

\* Bit i (0..31) of a u32, as 0 or 1.
WBit(a, i) == IF i >= 16 THEN (a.hi \div Pow2(i - 16)) % 2 ELSE (a.lo \div Pow2(i)) % 2

\* (a >> n) & mask for a mask below 2^16, as a natural: the shape of every
\* field read in the decoders, e.g. (result.eax >> 26) & 0x3F.
ShrAnd(a, n, mask) == BitAnd(WShr(a, n).lo, mask)

\* (a & (1 << bit)) != 0
TestBit(a, bit) == WAnd(a, WOneShl(bit)) # Zero

\* u32::to_le_bytes
to_le_bytes(a) == <<a.lo % 256, a.lo \div 256, a.hi % 256, a.hi \div 256>>

\* The u32 of four little-endian bytes.
from_le_bytes(b) == W(b[3] + 256 * b[4], b[1] + 256 * b[2])

-----------------------------------------------------------------------------
(* Wide naturals: little-endian base-256 digit strings without leading     *)
(* zeros (the empty string is 0).  They carry u64 values and the exact     *)
(* results that u32 arithmetic is compared with.                           *)

RECURSIVE BnNorm(_)
BnNorm(a) ==
    IF a # << >> /\ a[Len(a)] = 0 THEN BnNorm(SubSeq(a, 1, Len(a) - 1)) ELSE a

RECURSIVE BnOfInt(_)
BnOfInt(n) == IF n = 0 THEN << >> ELSE << n % 256 >> \o BnOfInt(n \div 256)

BnOfWord(a) == BnNorm(to_le_bytes(a))

RECURSIVE BnAddC(_, _, _)
BnAddC(a, b, carry) ==
    IF a = << >> /\ b = << >> THEN BnOfInt(carry)
    ELSE LET x == IF a = << >> THEN 0 ELSE Head(a)
             y == IF b = << >> THEN 0 ELSE Head(b)
             t == x + y + carry
         IN  << t % 256 >> \o BnAddC(IF a = << >> THEN a ELSE Tail(a),
                                     IF b = << >> THEN b ELSE Tail(b), t \div 256)

BnAdd(a, b) == BnNorm(BnAddC(a, b, 0))

\* a * d for a digit d.
RECURSIVE BnMulDigit(_, _, _)
BnMulDigit(a, d, carry) ==
    IF a = << >> THEN BnOfInt(carry)
    ELSE LET t == Head(a) * d + carry
         IN  << t % 256 >> \o BnMulDigit(Tail(a), d, t \div 256)

RECURSIVE BnMul(_, _)
BnMul(a, b) ==
    IF a = << >> \/ b = << >> THEN << >>
    ELSE BnAdd(BnNorm(BnMulDigit(a, Head(b), 0)), BnNorm(<< 0 >> \o BnMul(a, Tail(b))))

\* Quotient and remainder of a by a divisor 0 < d < 2^23.
RECURSIVE BnDivRem(_, _)
BnDivRem(a, d) ==
    IF a = << >> THEN [q |-> << >>, r |-> 0]
    ELSE LET high == BnDivRem(Tail(a), d)
             cur  == high.r * 256 + Head(a)
         IN  [q |-> << cur \div d >> \o high.q, r |-> cur % d]

BnDiv(a, d) == BnNorm(BnDivRem(a, d).q)

\* a <= b.
RECURSIVE BnLeFrom(_, _, _)
BnLeFrom(a, b, i) ==
    IF i = 0 THEN TRUE
    ELSE IF a[i] # b[i] THEN a[i] < b[i]
    ELSE BnLeFrom(a, b, i - 1)

BnLe(a, b) == Len(a) < Len(b) \/ (Len(a) = Len(b) /\ BnLeFrom(a, b, Len(a)))

\* a - b for b <= a.
RECURSIVE BnSubB(_, _, _)
BnSubB(a, b, borrow) ==
    IF a = << >> THEN << >>
    ELSE LET y == (IF b = << >> THEN 0 ELSE Head(b)) + borrow
             x == Head(a)
         IN  << (x + 256 - y) % 256 >>
             \o BnSubB(Tail(a), IF b = << >> THEN b ELSE Tail(b), IF x < y THEN 1 ELSE 0)

BnSub(a, b) == BnNorm(BnSubB(a, b, 0))

\* The bits of a, most significant byte first.
RECURSIVE BnBitsMsb(_)
BnBitsMsb(a) ==
    IF a = << >> THEN << >>
    ELSE BnBitsMsb(Tail(a)) \o [i \in 1..8 |-> (Head(a) \div Pow2(8 - i)) % 2]

\* Binary long division: the quotient of the number with the given bits by
\* d > 0, with r the remainder and q the quotient so far.
RECURSIVE BnDivBits(_, _, _, _)
BnDivBits(bits, d, r, q) ==
    IF bits = << >> THEN q
    ELSE LET r2 == BnAdd(BnAdd(r, r), BnOfInt(Head(bits)))
             q2 == BnAdd(q, q)
         IN  IF q2 = q2 /\ BnLe(d, r2)
             THEN BnDivBits(Tail(bits), d, BnSub(r2, d), BnAdd(q2, << 1 >>))
             ELSE BnDivBits(Tail(bits), d, r2, q2)

\* a / d for any d > 0 (u64 division).
BnDivWide(a, d) == BnDivBits(BnBitsMsb(a), d, << >>, << >>)

\* The low 32 bits of a wide natural, as a u32 (the `as u32` cast and the
\* result of wrapping u32 arithmetic).
BnLow32(a) ==
    LET d(i) == IF i <= Len(a) THEN a[i] ELSE 0
    IN  from_le_bytes(<< d(1), d(2), d(3), d(4) >>)

BnFitsU32(a) == Len(a) <= 4

\* a * b on u32: the wrapped result and whether the exact product overflowed.
mul_u32(a, b) ==
    LET exact == BnMul(BnOfWord(a), BnOfWord(b))
    IN  [val |-> BnLow32(exact), overflow |-> ~BnFitsU32(exact)]

\* a + 1 on u32: the wrapped result and whether it overflowed.
inc_u32(a) == [val |-> WInc(a), overflow |-> a = W(65535, 65535)]

\* The u32 of a natural below 2^31.
WOfInt(n) == W(n \div 65536, n % 65536)

-----------------------------------------------------------------------------
(* The raw instruction interface and the leaf-support gate (cpuid.rs) *)

Regs(a, b, c, d) == [eax |-> a, ebx |-> b, ecx |-> c, edx |-> d]

ZeroRegs == Regs(Zero, Zero, Zero, Zero)

\* A standard leaf number n and the extended leaf number 0x8000_0000 + n.
LStd(n) == W(0, n)
LExt(n) == W(\h8000, n)

\* cpuid(leaf, subleaf): what the instruction returns on this hardware.
cpuid(leaf, subleaf) ==
    IF <<leaf, subleaf>> \in DOMAIN hw THEN hw[<<leaf, subleaf>>] ELSE ZeroRegs

\* The two kinds of event of a pass: an execution of CPUID, and an answer of
\* is_leaf_supported.
ProbeEv(leaf, subleaf) == [op |-> "cpuid", leaf |-> leaf, subleaf |-> subleaf, ok |-> TRUE]
GateEv(leaf, ok) == [op |-> "gate", leaf |-> leaf, subleaf |-> 0, ok |-> ok]

max_cpuid_leaf == cpuid(LStd(0), 0).eax

max_extended_leaf == cpuid(LExt(0), 0).eax

\* The gate with the extended range compared against the standard maximum.
is_leaf_supported_one_max(leaf) == WLe(leaf, max_cpuid_leaf)

is_leaf_supported(leaf) ==
    IF WLt(leaf, LExt(0)) THEN WLe(leaf, max_cpuid_leaf)
    ELSE WLe(leaf, max_extended_leaf)

\* The events of one is_leaf_supported(leaf) call: it executes CPUID on leaf 0
\* or leaf 0x8000_0000 every time it is called, then answers.
Gate(leaf) ==
    << ProbeEv(IF WLt(leaf, LExt(0)) THEN LStd(0) ELSE LExt(0), 0),
       GateEv(leaf, is_leaf_supported(leaf)) >>

\* The event of one cpuid(leaf, subleaf) call.
Probe(leaf, subleaf) == << ProbeEv(leaf, subleaf) >>

\* s when c holds, nothing otherwise.
When(c, s) == IF c THEN s ELSE << >>

\* Overflow of u32 arithmetic and of a shift amount panics when the build
\* checks it (the dev profile); otherwise arithmetic wraps and a shift amount
\* is taken modulo 32 (the release profile).
OverflowPanics == build = "debug"

\* The register of a CpuidResult selected by a Register value.
RegisterOf(result, register) ==
    CASE register = "Eax" -> result.eax
      [] register = "Ebx" -> result.ebx
      [] register = "Ecx" -> result.ecx
      [] register = "Edx" -> result.edx

\* CpuidResult::is_bit_set, 0 <= bit <= 31.
is_bit_set(result, register, bit) == TestBit(RegisterOf(result, register), bit)

\* CpuidResult::extract_bits, 0 <= start, end <= 31: the value returned
\* (ret) and the panic raised, if any.
\*    let mask = (1u32 << (end - start + 1)) - 1;
\*    (value >> start) & mask
extract_bits(result, register, start, end) ==
    LET value == RegisterOf(result, register)
        shift == (end - start + 1) % 32
        mask  == WDec(WOneShl(shift))
    IN  IF OverflowPanics /\ end < start
        THEN [ret |-> Zero, panic |-> "attempt to subtract with overflow"]
        ELSE IF OverflowPanics /\ end - start + 1 = 32
        THEN [ret |-> Zero, panic |-> "attempt to shift left with overflow"]
        ELSE [ret |-> WAnd(WShr(value, start), mask), panic |-> "none"]

-----------------------------------------------------------------------------
(* Strings: a String is the sequence of its chars (Unicode scalar values) *)

REPLACEMENT_CHARACTER == 65533

\* A UTF-8 continuation byte within [lo, hi].
InRange(b, lo, hi) == lo <= b /\ b <= hi

\* The decode of the sequence that starts at bytes[i]: the number of bytes it
\* takes and its char.  An invalid or truncated sequence takes its maximal
\* valid prefix (at least one byte) and decodes to U+FFFD, as
\* String::from_utf8_lossy does.
Utf8Step(bytes, i) ==
    LET n   == Len(bytes)
        b0  == bytes[i]
        has(k) == i + k <= n
        b(k) == bytes[i + k]
        bad(len) == [len |-> len, ch |-> REPLACEMENT_CHARACTER]
        lo2 == IF b0 = 224 THEN 160 ELSE IF b0 = 240 THEN 144 ELSE 128
        hi2 == IF b0 = 237 THEN 159 ELSE IF b0 = 244 THEN 143 ELSE 191
    IN  IF b0 < 128 THEN [len |-> 1, ch |-> b0]
        ELSE IF InRange(b0, 194, 223) THEN
            IF has(1) /\ InRange(b(1), 128, 191)
            THEN [len |-> 2, ch |-> (b0 % 32) * 64 + (b(1) % 64)]
            ELSE bad(1)
        ELSE IF InRange(b0, 224, 239) THEN
            IF ~(has(1) /\ InRange(b(1), lo2, hi2)) THEN bad(1)
            ELSE IF ~(has(2) /\ InRange(b(2), 128, 191)) THEN bad(2)
            ELSE [len |-> 3, ch |-> (b0 % 16) * 4096 + (b(1) % 64) * 64 + (b(2) % 64)]
        ELSE IF InRange(b0, 240, 244) THEN
            IF ~(has(1) /\ InRange(b(1), lo2, hi2)) THEN bad(1)
            ELSE IF ~(has(2) /\ InRange(b(2), 128, 191)) THEN bad(2)
            ELSE IF ~(has(3) /\ InRange(b(3), 128, 191)) THEN bad(3)
            ELSE [len |-> 4,
                  ch |-> (b0 % 8) * 262144 + (b(1) % 64) * 4096
                         + (b(2) % 64) * 64 + (b(3) % 64)]
        ELSE bad(1)

\* String::from_utf8_lossy(bytes), from position i on.
RECURSIVE from_utf8_lossy_at(_, _)
from_utf8_lossy_at(bytes, i) ==
    IF i > Len(bytes) THEN << >>
    ELSE LET st == Utf8Step(bytes, i)
         IN  << st.ch >> \o from_utf8_lossy_at(bytes, i + st.len)

from_utf8_lossy(bytes) == from_utf8_lossy_at(bytes, 1)

\* The UTF-8 bytes of one char and of a String (String::as_bytes).
Utf8Char(c) ==
    IF c < 128 THEN << c >>
    ELSE IF c < 2048 THEN << 192 + (c \div 64), 128 + (c % 64) >>
    ELSE IF c < 65536 THEN
        << 224 + (c \div 4096), 128 + ((c \div 64) % 64), 128 + (c % 64) >>
    ELSE << 240 + (c \div 262144), 128 + ((c \div 4096) % 64),
            128 + ((c \div 64) % 64), 128 + (c % 64) >>

RECURSIVE as_bytes(_)
as_bytes(s) == IF s = << >> THEN << >> ELSE Utf8Char(Head(s)) \o as_bytes(Tail(s))

\* char::is_whitespace: the Unicode White_Space property.
is_whitespace(c) ==
    \/ InRange(c, 9, 13) \/ c = 32 \/ c = 133 \/ c = 160 \/ c = 5760
    \/ InRange(c, 8192, 8202) \/ c = 8232 \/ c = 8233 \/ c = 8239
    \/ c = 8287 \/ c = 12288

\* str::trim_end_matches('\0')
RECURSIVE trim_end_matches_nul(_)
trim_end_matches_nul(s) ==
    IF s # << >> /\ s[Len(s)] = 0 THEN trim_end_matches_nul(SubSeq(s, 1, Len(s) - 1))
    ELSE s

RECURSIVE trim_start(_)
trim_start(s) ==
    IF s # << >> /\ is_whitespace(Head(s)) THEN trim_start(Tail(s)) ELSE s

RECURSIVE trim_end(_)
trim_end(s) ==
    IF s # << >> /\ is_whitespace(s[Len(s)]) THEN trim_end(SubSeq(s, 1, Len(s) - 1))
    ELSE s

\* str::trim: leading and trailing whitespace removed.
trim(s) == trim_end(trim_start(s))

\* The string literals of vendor.rs, as char sequences.
STR_GenuineIntel == << 71, 101, 110, 117, 105, 110, 101, 73, 110, 116, 101, 108 >>
STR_AuthenticAMD == << 65, 117, 116, 104, 101, 110, 116, 105, 99, 65, 77, 68 >>
STR_HygonGenuine == << 72, 121, 103, 111, 110, 71, 101, 110, 117, 105, 110, 101 >>
STR_Shanghai     == << 32, 32, 83, 104, 97, 110, 103, 104, 97, 105, 32, 32 >>

-----------------------------------------------------------------------------
(* vendor.rs *)

read_vendor_string_alphabetical(result) ==
    from_utf8_lossy(to_le_bytes(result.ebx) \o to_le_bytes(result.ecx)
                    \o to_le_bytes(result.edx))

read_vendor_string(result) ==
    from_utf8_lossy(to_le_bytes(result.ebx) \o to_le_bytes(result.edx)
                    \o to_le_bytes(result.ecx))

\* The 16 bytes of one brand-string leaf: EAX, EBX, ECX, EDX.
BrandLeafBytes(result) ==
    to_le_bytes(result.eax) \o to_le_bytes(result.ebx)
    \o to_le_bytes(result.ecx) \o to_le_bytes(result.edx)

read_brand_string ==
    LET brand == BrandLeafBytes(cpuid(LExt(2), 0)) \o BrandLeafBytes(cpuid(LExt(3), 0))
                 \o BrandLeafBytes(cpuid(LExt(4), 0))
    IN  trim(trim_end_matches_nul(from_utf8_lossy(brand)))

extract_family(eax) ==
    LET base_family     == ShrAnd(eax, 8, 15)
        extended_family == ShrAnd(eax, 20, 255)
    IN  IF base_family = 15 THEN base_family + extended_family ELSE base_family

extract_model_family6_only(eax) ==
    LET base_model     == ShrAnd(eax, 4, 15)
        extended_model == ShrAnd(eax, 16, 15)
        family         == ShrAnd(eax, 8, 15)
    IN  IF family = 6 THEN extended_model * 16 + base_model ELSE base_model

extract_model(eax) ==
    LET base_model     == ShrAnd(eax, 4, 15)
        extended_model == ShrAnd(eax, 16, 15)
        family         == ShrAnd(eax, 8, 15)
    IN  IF family = 6 \/ family = 15 THEN extended_model * 16 + base_model
        ELSE base_model

\* VendorInfo::detect: the decoded VendorInfo (out), the events issued (ev)
\* and the panic raised, if any.
VendorInfo_detect ==
    LET vendor_result == cpuid(LStd(0), 0)
        vendor_string == read_vendor_string(vendor_result)
        vendor ==
            IF vendor_string = STR_GenuineIntel THEN "Intel"
            ELSE IF vendor_string = STR_AuthenticAMD THEN "Amd"
            ELSE IF vendor_string = STR_HygonGenuine THEN "Hygon"
            ELSE IF vendor_string = STR_Shanghai THEN "Zhaoxin"
            ELSE "Unknown"
        signature == cpuid(LStd(1), 0)
    IN  [ out |-> [ vendor        |-> vendor,
                    vendor_string |-> vendor_string,
                    brand_string  |-> read_brand_string,
                    family        |-> extract_family(signature.eax),
                    model         |-> extract_model(signature.eax),
                    stepping      |-> ShrAnd(signature.eax, 0, 15) ],
          ev  |-> Probe(LStd(0), 0) \o Probe(LStd(1), 0) \o Probe(LExt(2), 0)
                  \o Probe(LExt(3), 0) \o Probe(LExt(4), 0),
          panic |-> "none" ]

-----------------------------------------------------------------------------
(* topology.rs *)

\* The subleaf loops of leaf 0xB run `for subleaf in 0..10`.
LEAF_B_SUBLEAVES == 10

\* The leaf 0xB walk of both detect_*_leaf_b functions, from `subleaf` on: the
\* width (EBX[15:0]) of the first subleaf whose level type (ECX[15:8]) is
\* `wanted`, or 1 when level type 0 or the end of the range comes first.
RECURSIVE leaf_b_walk(_, _)
leaf_b_walk(wanted, subleaf) ==
    IF subleaf >= LEAF_B_SUBLEAVES THEN [ret |-> 1, ev |-> << >>]
    ELSE LET result     == cpuid(LStd(11), subleaf)
             level_type == ShrAnd(result.ecx, 8, 255)
             here       == Probe(LStd(11), subleaf)
         IN  IF level_type = wanted
             THEN [ret |-> ShrAnd(result.ebx, 0, 65535), ev |-> here]
             ELSE IF level_type = 0 THEN [ret |-> 1, ev |-> here]
             ELSE LET rest == leaf_b_walk(wanted, subleaf + 1)
                  IN  [ret |-> rest.ret, ev |-> here \o rest.ev]

\* threads_per_core read from the core level (type 2) instead of the SMT level.
detect_threads_per_core_leaf_b_core_level == leaf_b_walk(2, 0)

detect_threads_per_core_leaf_b == leaf_b_walk(1, 0)

detect_logical_processors_leaf_b == leaf_b_walk(2, 0)

\* physical_cores on the leaf 0xB path, rounding the quotient up.
leaf_b_physical_cores_round_up(logical_processors, threads_per_core) ==
    IF logical_processors > 0 /\ threads_per_core > 0
    THEN (logical_processors + threads_per_core - 1) \div threads_per_core
    ELSE 1

\* physical_cores on the leaf 0xB path (the initial value 1 is kept when
\* either count is 0).
leaf_b_physical_cores(logical_processors, threads_per_core) ==
    IF logical_processors > 0 /\ threads_per_core > 0
    THEN logical_processors \div threads_per_core
    ELSE 1

\* The fallback count set to physical_cores whenever it is 1, whatever the
\* hyperthreading flag.
fallback_logical_processors_any_htt(logical_processors, has_hyperthreading, physical_cores) ==
    IF logical_processors = 1 THEN physical_cores ELSE logical_processors

\* logical_processors on the fallback path: set to physical_cores when it
\* is still 1 and hyperthreading is off.
fallback_logical_processors(logical_processors, has_hyperthreading, physical_cores) ==
    IF logical_processors = 1 /\ ~has_hyperthreading
    THEN physical_cores
    ELSE logical_processors

CpuTopology_detect ==
    LET sup1  == is_leaf_supported(LStd(1))
        supB  == is_leaf_supported(LStd(11))
        sup4  == is_leaf_supported(LStd(4))
        sup7  == is_leaf_supported(LStd(7))
        leaf1 == cpuid(LStd(1), 0)
        has_hyperthreading == sup1 /\ TestBit(leaf1.edx, 28)
        \* the leaf 0xB path
        tpcB == detect_threads_per_core_leaf_b
        lpB  == detect_logical_processors_leaf_b
        \* the fallback path
        lp0  == IF sup1 THEN ShrAnd(leaf1.ebx, 16, 255) ELSE 1
        pcF  == IF sup4 THEN ShrAnd(cpuid(LStd(4), 0).eax, 26, 63) + 1 ELSE 1
        lpF  == fallback_logical_processors(lp0, has_hyperthreading, pcF)
        tpcF == IF pcF > 0 THEN lpF \div pcF ELSE 1
        hybrid == sup7 /\ TestBit(cpuid(LStd(7), 0).edx, 15)
    IN  [ out |-> [ logical_processors |-> IF supB THEN lpB.ret ELSE lpF,
                    physical_cores     |-> IF supB
                                           THEN leaf_b_physical_cores(lpB.ret, tpcB.ret)
                                           ELSE pcF,
                    threads_per_core   |-> IF supB THEN tpcB.ret ELSE tpcF,
                    has_hyperthreading |-> has_hyperthreading,
                    hybrid             |-> hybrid ],
          ev  |-> Gate(LStd(1)) \o When(sup1, Probe(LStd(1), 0))
                  \o Gate(LStd(11))
                  \o (IF supB THEN tpcB.ev \o lpB.ev
                      ELSE Gate(LStd(1)) \o When(sup1, Probe(LStd(1), 0))
                           \o Gate(LStd(4)) \o When(sup4, Probe(LStd(4), 0)))
                  \o Gate(LStd(7)) \o When(sup7, Probe(LStd(7), 0)),
          panic |-> "none" ]

-----------------------------------------------------------------------------
(* cache.rs *)

\* detect_intel_caches runs `for index in 0..32`.
LEAF_4_SUBLEAVES == 32

\* (ways * partitions * line_size * sets) as u64: the product is formed in
\* u32, left to right as the expression is written, and widened afterwards.
intel_cache_size(ways, partitions, line_size, sets) ==
    LET p1 == mul_u32(WOfInt(ways), WOfInt(partitions))
        p2 == mul_u32(p1.val, WOfInt(line_size))
        p3 == mul_u32(p2.val, sets)
    IN  [val |-> BnOfWord(p3.val),
         overflow |-> p1.overflow \/ p2.overflow \/ p3.overflow]

\* One iteration of detect_intel_caches on the registers of a subleaf:
\* "break", "continue", "panic", or "push" with the entry.
intel_cache_entry(result) ==
    LET cache_type_bits == ShrAnd(result.eax, 0, 31)
        level_bits      == ShrAnd(result.eax, 5, 7)
        ways       == ShrAnd(result.ebx, 22, 1023) + 1
        partitions == ShrAnd(result.ebx, 12, 1023) + 1
        line_size  == ShrAnd(result.ebx, 0, 4095) + 1
        sets       == inc_u32(result.ecx)
        shared_by  == ShrAnd(result.eax, 14, 4095) + 1
        size       == intel_cache_size(ways, partitions, line_size, sets.val)
    IN  IF cache_type_bits = 0 THEN [step |-> "break"]
        ELSE IF cache_type_bits \notin {1, 2, 3} THEN [step |-> "continue"]
        ELSE IF level_bits \notin {1, 2, 3, 4} THEN [step |-> "continue"]
        ELSE IF OverflowPanics /\ sets.overflow
            THEN [step |-> "panic", msg |-> "attempt to add with overflow"]
        ELSE IF OverflowPanics /\ size.overflow
            THEN [step |-> "panic", msg |-> "attempt to multiply with overflow"]
        ELSE [step |-> "push",
              entry |-> [ level      |-> level_bits,
                          cache_type |-> CASE cache_type_bits = 1 -> "Data"
                                           [] cache_type_bits = 2 -> "Instruction"
                                           [] cache_type_bits = 3 -> "Unified",
                          size       |-> size.val,
                          ways       |-> ways,
                          line_size  |-> line_size,
                          sets       |-> sets.val,
                          shared_by  |-> shared_by ]]

\* detect_intel_caches from subleaf `index` on.
RECURSIVE detect_intel_caches_from(_)
detect_intel_caches_from(index) ==
    IF index >= LEAF_4_SUBLEAVES THEN [caches |-> << >>, ev |-> << >>, panic |-> "none"]
    ELSE LET it   == intel_cache_entry(cpuid(LStd(4), index))
             here == Probe(LStd(4), index)
         IN  IF it.step = "break" THEN [caches |-> << >>, ev |-> here, panic |-> "none"]
             ELSE IF it.step = "panic" THEN [caches |-> << >>, ev |-> here, panic |-> it.msg]
             ELSE LET rest == detect_intel_caches_from(index + 1)
                  IN  [caches |-> When(it.step = "push", << it.entry >>) \o rest.caches,
                       ev     |-> here \o rest.ev,
                       panic  |-> rest.panic]

detect_intel_caches == detect_intel_caches_from(0)

\* One legacy cache: pushed iff size > 0, with sets = (size / (ways as u64 *
\* line_size as u64)) as u32; the division panics on a zero divisor.
amd_cache(level, cache_type, size, ways, line_size) ==
    IF size = << >> THEN [step |-> "skip"]
    ELSE IF ways * line_size = 0
        THEN [step |-> "panic", msg |-> "attempt to divide by zero"]
    ELSE [step |-> "push",
          entry |-> [ level      |-> level,
                      cache_type |-> cache_type,
                      size       |-> size,
                      ways       |-> ways,
                      line_size  |-> line_size,
                      sets       |-> BnLow32(BnDiv(size, ways * line_size)),
                      shared_by  |-> 1 ]]

\* The caches pushed by a run of legacy cache steps, up to the first panic.
RECURSIVE AmdSteps(_)
AmdSteps(steps) ==
    IF steps = << >> THEN [caches |-> << >>, panic |-> "none"]
    ELSE LET st == Head(steps)
         IN  IF st.step = "panic" THEN [caches |-> << >>, panic |-> st.msg]
             ELSE LET rest == AmdSteps(Tail(steps))
                  IN  [caches |-> When(st.step = "push", << st.entry >>) \o rest.caches,
                       panic  |-> rest.panic]

detect_amd_caches ==
    LET sup5 == is_leaf_supported(LExt(5))
        sup6 == is_leaf_supported(LExt(6))
        r5   == cpuid(LExt(5), 0)
        r6   == cpuid(LExt(6), 0)
        l1d  == amd_cache(1, "Data",
                          BnMul(BnOfInt(ShrAnd(r5.ecx, 24, 255)), BnOfInt(1024)),
                          ShrAnd(r5.ecx, 16, 255), ShrAnd(r5.ecx, 0, 255))
        l1i  == amd_cache(1, "Instruction",
                          BnMul(BnOfInt(ShrAnd(r5.edx, 24, 255)), BnOfInt(1024)),
                          ShrAnd(r5.edx, 16, 255), ShrAnd(r5.edx, 0, 255))
        l2   == amd_cache(2, "Unified",
                          BnMul(BnOfInt(ShrAnd(r6.ecx, 16, 65535)), BnOfInt(1024)),
                          ShrAnd(r6.ecx, 12, 15), ShrAnd(r6.ecx, 0, 255))
        l3   == amd_cache(3, "Unified",
                          BnMul(BnMul(BnOfInt(ShrAnd(r6.edx, 18, 16383)), BnOfInt(512)),
                                BnOfInt(1024)),
                          ShrAnd(r6.edx, 12, 15), ShrAnd(r6.edx, 0, 255))
        first  == AmdSteps(When(sup5, << l1d, l1i >>))
        second == AmdSteps(When(sup6, << l2, l3 >>))
    IN  IF first.panic # "none"
        THEN [caches |-> << >>, panic |-> first.panic,
              ev |-> Gate(LExt(5)) \o Probe(LExt(5), 0)]
        ELSE [caches |-> first.caches \o second.caches,
              panic  |-> second.panic,
              ev     |-> Gate(LExt(5)) \o When(sup5, Probe(LExt(5), 0))
                         \o Gate(LExt(6)) \o When(sup6, Probe(LExt(6), 0))]

\* detect_all running the legacy decoder after the deterministic one
\* whenever leaf 0x8000_0005 is supported.
CacheInfo_detect_all_both_formats ==
    LET sup4  == is_leaf_supported(LStd(4))
        sup5  == is_leaf_supported(LExt(5))
        intel == IF sup4 THEN detect_intel_caches
                 ELSE [caches |-> << >>, ev |-> << >>, panic |-> "none"]
        amd   == IF sup5 /\ intel.panic = "none" THEN detect_amd_caches
                 ELSE [caches |-> << >>, ev |-> << >>, panic |-> "none"]
    IN  [ out   |-> intel.caches \o amd.caches,
          ev    |-> Gate(LStd(4)) \o intel.ev \o Gate(LExt(5)) \o amd.ev,
          panic |-> IF intel.panic # "none" THEN intel.panic ELSE amd.panic ]

CacheInfo_detect_all ==
    LET sup4  == is_leaf_supported(LStd(4))
        sup5  == is_leaf_supported(LExt(5))
        intel == detect_intel_caches
        amd   == detect_amd_caches
    IN  IF sup4
        THEN [out |-> intel.caches, ev |-> Gate(LStd(4)) \o intel.ev, panic |-> intel.panic]
        ELSE IF sup5
        THEN [out |-> amd.caches, ev |-> Gate(LStd(4)) \o Gate(LExt(5)) \o amd.ev,
              panic |-> amd.panic]
        ELSE [out |-> << >>, ev |-> Gate(LStd(4)) \o Gate(LExt(5)), panic |-> "none"]

-----------------------------------------------------------------------------
(* tlb.rs *)

\* detect_intel_tlb runs `for subleaf in 0..10`.
LEAF_18_SUBLEAVES == 10

\* Associativity texts: "<n>-way" is [n |-> n, s |-> "-way"], any other text
\* is [n |-> 0, s |-> text].
Way(n) == [n |-> n, s |-> "-way"]
Text(t) == [n |-> 0, s |-> t]

\* TLB labels "L<level> <kind>".
TlbType(level, kind) == [level |-> level, kind |-> kind]

decode_assoc(val) ==
    CASE val = 0   -> Text("Reserved")
      [] val = 1   -> Way(1)
      [] val = 2   -> Way(2)
      [] val = 255 -> Text("Fully")
      [] OTHER     -> Way(val)

\* The L2 lanes decoded with the table of the L1 lanes.
decode_assoc_l2_l1_table(val) ==
    CASE val = 0   -> Text("Reserved")
      [] val = 1   -> Way(1)
      [] val = 2   -> Way(2)
      [] val = 255 -> Text("Fully")
      [] OTHER     -> Way(val)

decode_assoc_l2(val) ==
    CASE val = 0  -> Text("Disabled")
      [] val = 1  -> Way(1)
      [] val = 2  -> Way(2)
      [] val = 4  -> Way(4)
      [] val = 6  -> Way(8)
      [] val = 8  -> Way(16)
      [] val = 10 -> Way(32)
      [] val = 11 -> Way(48)
      [] val = 12 -> Way(64)
      [] val = 13 -> Way(96)
      [] val = 14 -> Way(128)
      [] val = 15 -> Text("Fully")
      [] OTHER    -> Way(val)

\* One 16-bit lane of leaf 0x8000_0005: pushed iff the lane is non-zero.
amd_l1_lane(lane, page_size, kind) ==
    When(lane # 0,
         << [ page_size     |-> page_size,
              entries       |-> WOfInt(BitAnd(lane, 255)),
              associativity |-> decode_assoc(BitAnd(lane \div 256, 255)),
              tlb_type      |-> TlbType(1, kind) ] >>)

detect_amd_l1_tlb ==
    LET result == cpuid(LExt(5), 0)
    IN  [ entries |-> amd_l1_lane(ShrAnd(result.eax, 16, 65535), "2M/4M", "Data")
                      \o amd_l1_lane(ShrAnd(result.eax, 0, 65535), "2M/4M", "Instruction")
                      \o amd_l1_lane(ShrAnd(result.ebx, 16, 65535), "4K", "Data")
                      \o amd_l1_lane(ShrAnd(result.ebx, 0, 65535), "4K", "Instruction"),
          ev |-> Probe(LExt(5), 0) ]

\* One 16-bit lane of leaf 0x8000_0006: pushed iff the lane is non-zero.
amd_l2_lane(lane, page_size, kind) ==
    When(lane # 0,
         << [ page_size     |-> page_size,
              entries       |-> WOfInt(BitAnd(lane, 4095)),
              associativity |-> decode_assoc_l2(BitAnd(lane \div 4096, 15)),
              tlb_type      |-> TlbType(2, kind) ] >>)

detect_amd_l2_tlb ==
    LET result == cpuid(LExt(6), 0)
    IN  [ entries |-> amd_l2_lane(ShrAnd(result.eax, 16, 65535), "2M/4M", "Data")
                      \o amd_l2_lane(ShrAnd(result.eax, 0, 65535), "2M/4M", "Instruction")
                      \o amd_l2_lane(ShrAnd(result.ebx, 16, 65535), "4K", "Data")
                      \o amd_l2_lane(ShrAnd(result.ebx, 0, 65535), "4K", "Instruction"),
          ev |-> Probe(LExt(6), 0) ]

\* One iteration of detect_intel_tlb on the registers of a subleaf.
intel_tlb_entry(result) ==
    LET type_bits == ShrAnd(result.edx, 0, 31)
        level     == ShrAnd(result.edx, 5, 7)
        page_bits == ShrAnd(result.ebx, 0, 3)
        ways      == ShrAnd(result.ebx, 16, 65535)
        sets      == result.ecx
        entries   == mul_u32(WOfInt(ways), sets)
    IN  IF result.eax = Zero THEN [step |-> "break"]
        ELSE IF type_bits \notin {1, 2, 3} THEN [step |-> "continue"]
        ELSE IF OverflowPanics /\ entries.overflow
            THEN [step |-> "panic", msg |-> "attempt to multiply with overflow"]
        ELSE [step |-> "push",
              entry |-> [ page_size |-> CASE page_bits = 0 -> "4K"
                                          [] page_bits = 1 -> "2M"
                                          [] page_bits = 2 -> "4M"
                                          [] page_bits = 3 -> "1G",
                          entries   |-> entries.val,
                          associativity |-> IF ways = 65535 THEN Text("Fully")
                                            ELSE Way(ways),
                          tlb_type  |-> TlbType(level,
                                                CASE type_bits = 1 -> "Data"
                                                  [] type_bits = 2 -> "Instruction"
                                                  [] type_bits = 3 -> "Unified") ]]

\* detect_intel_tlb as `loop` instead of `for subleaf in 0..10`: only a
\* subleaf with a zero EAX ends the walk.
RECURSIVE detect_intel_tlb_from_until_zero(_)
detect_intel_tlb_from_until_zero(subleaf) ==
    LET it   == intel_tlb_entry(cpuid(LStd(24), subleaf))
        here == Probe(LStd(24), subleaf)
    IN  IF it.step = "break"
        THEN [entries |-> << >>, ev |-> here, panic |-> "none"]
        ELSE IF it.step = "panic"
        THEN [entries |-> << >>, ev |-> here, panic |-> it.msg]
        ELSE LET rest == detect_intel_tlb_from_until_zero(subleaf + 1)
             IN  [entries |-> When(it.step = "push", << it.entry >>) \o rest.entries,
                  ev      |-> here \o rest.ev,
                  panic   |-> rest.panic]

\* detect_intel_tlb from subleaf `subleaf` on.
RECURSIVE detect_intel_tlb_from(_)
detect_intel_tlb_from(subleaf) ==
    IF subleaf >= LEAF_18_SUBLEAVES
    THEN [entries |-> << >>, ev |-> << >>, panic |-> "none"]
    ELSE LET it   == intel_tlb_entry(cpuid(LStd(24), subleaf))
             here == Probe(LStd(24), subleaf)
         IN  IF it.step = "break"
             THEN [entries |-> << >>, ev |-> here, panic |-> "none"]
             ELSE IF it.step = "panic"
             THEN [entries |-> << >>, ev |-> here, panic |-> it.msg]
             ELSE LET rest == detect_intel_tlb_from(subleaf + 1)
                  IN  [entries |-> When(it.step = "push", << it.entry >>) \o rest.entries,
                       ev      |-> here \o rest.ev,
                       panic   |-> rest.panic]

detect_intel_tlb == detect_intel_tlb_from(0)

TlbInfo_detect ==
    LET sup5  == is_leaf_supported(LExt(5))
        sup6  == is_leaf_supported(LExt(6))
        sup18 == is_leaf_supported(LStd(24))
        l1    == detect_amd_l1_tlb
        l2    == detect_amd_l2_tlb
        det   == detect_intel_tlb
    IN  [ out |-> [ entries |-> When(sup5, l1.entries) \o When(sup6, l2.entries)
                                \o When(sup18, det.entries) ],
          ev  |-> Gate(LExt(5)) \o When(sup5, l1.ev)
                  \o Gate(LExt(6)) \o When(sup6, l2.ev)
                  \o Gate(LStd(24)) \o When(sup18, det.ev),
          panic |-> IF sup18 THEN det.panic ELSE "none" ]

-----------------------------------------------------------------------------
(* power.rs, frequency.rs, address.rs, platform.rs, msr.rs *)

\* Option<T>: None is the empty sequence, Some(x) the sequence of x.
None == << >>
Some(x) == << x >>

PowerInfo_detect ==
    LET sup1 == is_leaf_supported(LStd(1))
        sup6 == is_leaf_supported(LStd(6))
        r1   == cpuid(LStd(1), 0)
        r6   == cpuid(LStd(6), 0)
        b6(bit) == sup6 /\ TestBit(r6.eax, bit)
    IN  [ out |-> [ digital_thermal_sensor |-> b6(0),
                    turbo_boost            |-> b6(1),
                    arat                   |-> b6(2),
                    pln                    |-> b6(4),
                    pts                    |-> b6(6),
                    hwp                    |-> b6(7),
                    hwp_notification       |-> b6(8),
                    hwp_activity_window    |-> b6(9),
                    hwp_epp                |-> b6(10),
                    hwp_package            |-> b6(11),
                    hdc                    |-> b6(13),
                    turbo_boost_max_3      |-> b6(14),
                    hwp_capabilities       |-> b6(15),
                    hwp_peci               |-> b6(16),
                    flexible_hwp           |-> b6(17),
                    hwp_fast_access        |-> b6(18),
                    hw_feedback            |-> b6(19),
                    ignore_idle_hwp        |-> b6(20),
                    thread_director        |-> b6(23),
                    therm_interrupt        |-> sup1 /\ TestBit(r1.edx, 22),
                    therm_status           |-> sup1 /\ TestBit(r1.ecx, 3),
                    tm2                    |-> sup1 /\ TestBit(r1.ecx, 8),
                    num_interrupt_thresholds |->
                        IF sup6 THEN ShrAnd(r6.ebx, 0, 15) ELSE 0 ],
          ev  |-> Gate(LStd(1)) \o When(sup1, Probe(LStd(1), 0))
                  \o Gate(LStd(6)) \o When(sup6, Probe(LStd(6), 0)),
          panic |-> "none" ]

\* (crystal_hz as u64 * ebx as u64 / eax as u64 / 1_000_000) as u32
tsc_mhz_of(crystal_hz, ebx, eax) ==
    BnLow32(BnDiv(BnDivWide(BnMul(BnOfWord(crystal_hz), BnOfWord(ebx)), BnOfWord(eax)),
                  1000000))

FrequencyInfo_detect ==
    LET sup16 == is_leaf_supported(LStd(22))
        sup15 == is_leaf_supported(LStd(21))
        r16   == cpuid(LStd(22), 0)
        r15   == cpuid(LStd(21), 0)
        crystal_hz == IF r15.ecx # Zero THEN r15.ecx ELSE WOfInt(24000000)
    IN  [ out |-> [ base_mhz |-> IF sup16 /\ r16.eax # Zero
                                 THEN Some(ShrAnd(r16.eax, 0, 65535)) ELSE None,
                    max_mhz  |-> IF sup16 /\ r16.ebx # Zero
                                 THEN Some(ShrAnd(r16.ebx, 0, 65535)) ELSE None,
                    bus_mhz  |-> IF sup16 /\ r16.ecx # Zero
                                 THEN Some(ShrAnd(r16.ecx, 0, 65535)) ELSE None,
                    tsc_mhz  |-> IF sup15 /\ r15.ebx # Zero /\ r15.eax # Zero
                                 THEN Some(tsc_mhz_of(crystal_hz, r15.ebx, r15.eax))
                                 ELSE None ],
          ev  |-> Gate(LStd(22)) \o When(sup16, Probe(LStd(22), 0))
                  \o Gate(LStd(21)) \o When(sup15, Probe(LStd(21), 0)),
          panic |-> "none" ]

AddressInfo_detect ==
    LET sup8 == is_leaf_supported(LExt(8))
        r8   == cpuid(LExt(8), 0)
        guest_phys == ShrAnd(r8.eax, 16, 255)
    IN  [ out |-> [ physical_bits |-> IF sup8 THEN ShrAnd(r8.eax, 0, 255) ELSE 36,
                    virtual_bits  |-> IF sup8 THEN ShrAnd(r8.eax, 8, 255) ELSE 48,
                    guest_physical_bits |->
                        IF sup8 /\ guest_phys > 0 THEN Some(guest_phys) ELSE None ],
          ev  |-> Gate(LExt(8)) \o When(sup8, Probe(LExt(8), 0)),
          panic |-> "none" ]

PlatformInfo_detect ==
    LET sup1 == is_leaf_supported(LStd(1))
        sup6 == is_leaf_supported(LStd(6))
        sup7 == is_leaf_supported(LExt(7))
        r1   == cpuid(LStd(1), 0)
        d1(bit) == sup1 /\ TestBit(r1.edx, bit)
        c1(bit) == sup1 /\ TestBit(r1.ecx, bit)
    IN  [ out |-> [ max_cpuid_leaf           |-> cpuid(LStd(0), 0).eax,
                    max_extended_leaf        |-> cpuid(LExt(0), 0).eax,
                    microcode_update         |-> FALSE,
                    machine_check            |-> d1(14),
                    mtrr                     |-> d1(12),
                    page_attribute_table     |-> d1(16),
                    page_size_extension      |-> d1(17),
                    time_stamp_counter       |-> d1(4),
                    model_specific_registers |-> d1(5),
                    apic_on_chip             |-> d1(9),
                    x2apic                   |-> c1(21),
                    local_apic_timer_always_running |->
                        sup6 /\ TestBit(cpuid(LStd(6), 0).eax, 2),
                    tsc_invariant            |-> sup7 /\ TestBit(cpuid(LExt(7), 0).edx, 8),
                    tsc_deadline             |-> c1(24),
                    xapic                    |-> c1(21) ],
          ev  |-> Probe(LStd(0), 0) \o Probe(LExt(0), 0)
                  \o Gate(LStd(1)) \o When(sup1, Probe(LStd(1), 0))
                  \o Gate(LStd(6)) \o When(sup6, Probe(LStd(6), 0))
                  \o Gate(LExt(7)) \o When(sup7, Probe(LExt(7), 0)),
          panic |-> "none" ]

MsrInfo_detect ==
    LET sup1 == is_leaf_supported(LStd(1))
        sup6 == is_leaf_supported(LStd(6))
        sup7 == is_leaf_supported(LStd(7))
        r6   == cpuid(LStd(6), 0)
        msr_support == sup1 /\ TestBit(cpuid(LStd(1), 0).edx, 5)
    IN  [ out |-> [ msr_support           |-> msr_support,
                    rdmsr_wrmsr           |-> msr_support,
                    msr_platform_info     |-> sup7 /\ TestBit(cpuid(LStd(7), 0).ecx, 15),
                    msr_temperature       |-> sup6 /\ TestBit(r6.eax, 0),
                    msr_perf_status       |-> msr_support,
                    msr_perf_ctl          |-> msr_support,
                    msr_misc_enable       |-> msr_support,
                    msr_energy_perf_bias  |-> sup6 /\ TestBit(r6.ecx, 3),
                    msr_turbo_ratio_limit |-> sup6 /\ TestBit(r6.eax, 1) ],
          ev  |-> Gate(LStd(1)) \o When(sup1, Probe(LStd(1), 0))
                  \o Gate(LStd(6)) \o When(sup6, Probe(LStd(6), 0))
                  \o Gate(LStd(7)) \o When(sup7, Probe(LStd(7), 0)),
          panic |-> "none" ]

-----------------------------------------------------------------------------
(* features.rs *)

\* The flags of FeatureSet: name and bit position (const NAME = 1 << bit).
FeatureSet_flags ==
    <<
       << "FPU", 0 >>,
       << "VME", 1 >>,
       << "DE", 2 >>,
       << "PSE", 3 >>,
       << "TSC", 4 >>,
       << "MSR", 5 >>,
       << "PAE", 6 >>,
       << "MCE", 7 >>,
       << "CX8", 8 >>,
       << "APIC", 9 >>,
       << "SEP", 11 >>,
       << "MTRR", 12 >>,
       << "PGE", 13 >>,
       << "MCA", 14 >>,
       << "CMOV", 15 >>,
       << "PAT", 16 >>,
       << "PSE36", 17 >>,
       << "PSN", 18 >>,
       << "CLFSH", 19 >>,
       << "DS", 21 >>,
       << "ACPI", 22 >>,
       << "MMX", 23 >>,
       << "FXSR", 24 >>,
       << "SSE", 25 >>,
       << "SSE2", 26 >>,
       << "SS", 27 >>,
       << "HTT", 28 >>,
       << "TM", 29 >>,
       << "PBE", 31 >>
    >>

\* The bit position of a FeatureSet flag.
FeatureSet_bit(flag) ==
    FeatureSet_flags[CHOOSE i \in 1..Len(FeatureSet_flags) :
                        FeatureSet_flags[i][1] = flag][2]

\* The tests of detect_leaf1_edx: EDX bit tested, flag set when it is 1.
detect_leaf1_edx_tests ==
    <<
       << 0, "FPU" >>,
       << 1, "VME" >>,
       << 2, "DE" >>,
       << 3, "PSE" >>,
       << 4, "TSC" >>,
       << 5, "MSR" >>,
       << 6, "PAE" >>,
       << 7, "MCE" >>,
       << 8, "CX8" >>,
       << 9, "APIC" >>,
       << 11, "SEP" >>,
       << 12, "MTRR" >>,
       << 13, "PGE" >>,
       << 14, "MCA" >>,
       << 15, "CMOV" >>,
       << 16, "PAT" >>,
       << 17, "PSE36" >>,
       << 19, "CLFSH" >>,
       << 23, "MMX" >>,
       << 24, "FXSR" >>,
       << 25, "SSE" >>,
       << 26, "SSE2" >>,
       << 28, "HTT" >>
    >>

\* detect_leaf1_edx with HTT read one bit too low, from EDX bit 27.
detect_leaf1_edx_htt_at_27(edx) ==
    { FeatureSet_bit(detect_leaf1_edx_tests[i][2]) :
        i \in { j \in 1..Len(detect_leaf1_edx_tests) :
                    TestBit(edx, IF detect_leaf1_edx_tests[j][2] = "HTT" THEN 27
                                 ELSE detect_leaf1_edx_tests[j][1]) } }

\* detect_leaf1_edx: the FeatureSet, as the set of its bit positions.
detect_leaf1_edx(edx) ==
    { FeatureSet_bit(detect_leaf1_edx_tests[i][2]) :
        i \in { j \in 1..Len(detect_leaf1_edx_tests) :
                    TestBit(edx, detect_leaf1_edx_tests[j][1]) } }

\* The bit tables of the feature decoder: << bit, name, category >>.
detect_leaf1_ecx_feature_map ==
    <<
       << 0, "SSE3", "Simd" >>,
       << 1, "PCLMULQDQ", "Cryptography" >>,
       << 2, "DTES64", "Debug" >>,
       << 3, "MONITOR", "Power" >>,
       << 4, "DS-CPL", "Debug" >>,
       << 5, "VMX", "Virtualization" >>,
       << 6, "SMX", "Security" >>,
       << 7, "EIST", "Power" >>,
       << 8, "TM2", "Power" >>,
       << 9, "SSSE3", "Simd" >>,
       << 10, "CNXT-ID", "Debug" >>,
       << 11, "SDBG", "Debug" >>,
       << 12, "FMA", "Simd" >>,
       << 13, "CMPXCHG16B", "System" >>,
       << 14, "xTPR", "System" >>,
       << 15, "PDCM", "Performance" >>,
       << 17, "PCID", "Memory" >>,
       << 18, "DCA", "Performance" >>,
       << 19, "SSE4.1", "Simd" >>,
       << 20, "SSE4.2", "Simd" >>,
       << 21, "x2APIC", "System" >>,
       << 22, "MOVBE", "System" >>,
       << 23, "POPCNT", "Performance" >>,
       << 24, "TSC-Deadline", "System" >>,
       << 25, "AES", "Cryptography" >>,
       << 26, "XSAVE", "System" >>,
       << 27, "OSXSAVE", "System" >>,
       << 28, "AVX", "Simd" >>,
       << 29, "F16C", "Simd" >>,
       << 30, "RDRAND", "Security" >>,
       << 31, "HYPERVISOR", "Virtualization" >>
    >>

detect_leaf7_ebx_features ==
    <<
       << 0, "FSGSBASE", "System" >>,
       << 1, "TSC_ADJUST", "System" >>,
       << 2, "SGX", "Security" >>,
       << 3, "BMI1", "Performance" >>,
       << 4, "HLE", "Performance" >>,
       << 5, "AVX2", "Simd" >>,
       << 6, "FDP_EXCPTN_ONLY", "Debug" >>,
       << 7, "SMEP", "Security" >>,
       << 8, "BMI2", "Performance" >>,
       << 9, "ERMS", "Performance" >>,
       << 10, "INVPCID", "Memory" >>,
       << 11, "RTM", "Performance" >>,
       << 12, "PQM", "Performance" >>,
       << 13, "FPU_CS_DS_DEPRECATED", "System" >>,
       << 14, "MPX", "Security" >>,
       << 15, "PQE", "Performance" >>,
       << 16, "AVX512F", "Simd" >>,
       << 17, "AVX512DQ", "Simd" >>,
       << 18, "RDSEED", "Security" >>,
       << 19, "ADX", "Performance" >>,
       << 20, "SMAP", "Security" >>,
       << 21, "AVX512_IFMA", "Simd" >>,
       << 23, "CLFLUSHOPT", "Performance" >>,
       << 24, "CLWB", "Performance" >>,
       << 25, "INTEL_PT", "Debug" >>,
       << 26, "AVX512PF", "Simd" >>,
       << 27, "AVX512ER", "Simd" >>,
       << 28, "AVX512CD", "Simd" >>,
       << 29, "SHA", "Cryptography" >>,
       << 30, "AVX512BW", "Simd" >>,
       << 31, "AVX512VL", "Simd" >>
    >>

detect_leaf7_ecx_features ==
    <<
       << 0, "PREFETCHWT1", "Performance" >>,
       << 1, "AVX512_VBMI", "Simd" >>,
       << 2, "UMIP", "Security" >>,
       << 3, "PKU", "Security" >>,
       << 4, "OSPKE", "Security" >>,
       << 5, "WAITPKG", "Power" >>,
       << 6, "AVX512_VBMI2", "Simd" >>,
       << 7, "CET_SS", "Security" >>,
       << 8, "GFNI", "Cryptography" >>,
       << 9, "VAES", "Cryptography" >>,
       << 10, "VPCLMULQDQ", "Cryptography" >>,
       << 11, "AVX512_VNNI", "Simd" >>,
       << 12, "AVX512_BITALG", "Simd" >>,
       << 13, "TME_EN", "Security" >>,
       << 14, "AVX512_VPOPCNTDQ", "Simd" >>,
       << 16, "LA57", "Memory" >>,
       << 22, "RDPID", "System" >>,
       << 23, "KL", "Security" >>,
       << 25, "CLDEMOTE", "Performance" >>,
       << 27, "MOVDIRI", "Performance" >>,
       << 28, "MOVDIR64B", "Performance" >>,
       << 29, "ENQCMD", "Performance" >>,
       << 30, "SGX_LC", "Security" >>,
       << 31, "PKS", "Security" >>
    >>

detect_leaf7_edx_features ==
    <<
       << 2, "AVX512_4VNNIW", "Simd" >>,
       << 3, "AVX512_4FMAPS", "Simd" >>,
       << 4, "FSRM", "Performance" >>,
       << 5, "UINTR", "System" >>,
       << 8, "AVX512_VP2INTERSECT", "Simd" >>,
       << 9, "SRBDS_CTRL", "Security" >>,
       << 10, "MD_CLEAR", "Security" >>,
       << 11, "RTM_ALWAYS_ABORT", "Performance" >>,
       << 13, "TSX_FORCE_ABORT", "Security" >>,
       << 14, "SERIALIZE", "System" >>,
       << 15, "HYBRID", "System" >>,
       << 16, "TSXLDTRK", "Performance" >>,
       << 18, "PCONFIG", "Security" >>,
       << 19, "ARCHITECTURAL_LBR", "Debug" >>,
       << 20, "CET_IBT", "Security" >>,
       << 22, "AMX_BF16", "Simd" >>,
       << 23, "AVX512_FP16", "Simd" >>,
       << 24, "AMX_TILE", "Simd" >>,
       << 25, "AMX_INT8", "Simd" >>,
       << 26, "IBRS_IBPB", "Security" >>,
       << 27, "STIBP", "Security" >>,
       << 28, "L1D_FLUSH", "Security" >>,
       << 29, "IA32_ARCH_CAPABILITIES", "Security" >>,
       << 30, "IA32_CORE_CAPABILITIES", "System" >>,
       << 31, "SSBD", "Security" >>
    >>

detect_leaf7_sub1_eax_features ==
    <<
       << 3, "RAO_INT", "Performance" >>,
       << 4, "AVX_VNNI", "Simd" >>,
       << 5, "AVX512_BF16", "Simd" >>,
       << 6, "LASS", "Security" >>,
       << 7, "CMPCCXADD", "Performance" >>,
       << 8, "ARCHPERFMONEXT", "Performance" >>,
       << 10, "FZRM", "Simd" >>,
       << 11, "FSRS", "Performance" >>,
       << 12, "FSRC", "Performance" >>,
       << 17, "FRED", "System" >>,
       << 18, "LKGS", "System" >>,
       << 19, "WRMSRNS", "System" >>,
       << 21, "AMX_FP16", "Simd" >>,
       << 22, "HRESET", "System" >>,
       << 23, "AVX_IFMA", "Simd" >>,
       << 26, "LAM", "Memory" >>,
       << 27, "MSRLIST", "System" >>
    >>

detect_leaf7_sub1_ebx_features ==
    <<
       << 0, "PPIN", "System" >>
    >>

detect_leaf7_sub1_edx_features ==
    <<
       << 4, "AVX_VNNI_INT8", "Simd" >>,
       << 5, "AVX_NE_CONVERT", "Simd" >>,
       << 8, "AMX_COMPLEX", "Simd" >>,
       << 10, "AVX_VNNI_INT16", "Simd" >>,
       << 14, "PREFETCHITI", "Performance" >>,
       << 15, "USER_MSR", "System" >>,
       << 17, "CET_SSS", "Security" >>,
       << 18, "AVX10", "Simd" >>,
       << 19, "APX_F", "Performance" >>
    >>

detect_leaf7_sub2_edx_features ==
    <<
       << 0, "PSFD", "Security" >>,
       << 1, "IPRED_CTRL", "Security" >>,
       << 2, "RRSBA_CTRL", "Security" >>,
       << 3, "DDPD_U", "Security" >>,
       << 4, "BHI_CTRL", "Security" >>,
       << 5, "MCDT_NO", "Security" >>
    >>

detect_extended_features_edx_features ==
    <<
       << 11, "SYSCALL", "System" >>,
       << 19, "MP", "System" >>,
       << 20, "NX", "Security" >>,
       << 22, "MMXEXT", "Simd" >>,
       << 25, "FXSR_OPT", "Performance" >>,
       << 26, "PDPE1GB", "Memory" >>,
       << 27, "RDTSCP", "System" >>,
       << 29, "LM", "System" >>,
       << 30, "3DNOWEXT", "Simd" >>,
       << 31, "3DNOW", "Simd" >>
    >>

detect_extended_features_ecx_features ==
    <<
       << 0, "LAHF_LM", "System" >>,
       << 1, "CMP_LEGACY", "System" >>,
       << 2, "SVM", "Virtualization" >>,
       << 3, "EXTAPIC", "System" >>,
       << 4, "CR8_LEGACY", "System" >>,
       << 5, "ABM", "Performance" >>,
       << 6, "SSE4A", "Simd" >>,
       << 7, "MISALIGNSSE", "Performance" >>,
       << 8, "3DNOWPREFETCH", "Performance" >>,
       << 9, "OSVW", "System" >>,
       << 10, "IBS", "Debug" >>,
       << 11, "XOP", "Simd" >>,
       << 12, "SKINIT", "Security" >>,
       << 13, "WDT", "Debug" >>,
       << 15, "LWP", "Performance" >>,
       << 16, "FMA4", "Simd" >>,
       << 17, "TCE", "Performance" >>,
       << 19, "NODEID_MSR", "System" >>,
       << 21, "TBM", "Performance" >>,
       << 22, "TOPOEXT", "System" >>,
       << 23, "PERFCTR_CORE", "Performance" >>,
       << 24, "PERFCTR_NB", "Performance" >>,
       << 26, "DBX", "Debug" >>,
       << 27, "PERFTSC", "Performance" >>,
       << 28, "PCX_L2I", "Performance" >>,
       << 29, "MONITORX", "Power" >>,
       << 30, "ADDR_MASK_EXT", "System" >>
    >>

detect_amd_extended_ebx_features ==
    <<
       << 0, "CLZERO", "Performance" >>,
       << 1, "IRPERF", "Performance" >>,
       << 2, "XSAVEERPTR", "System" >>,
       << 4, "RDPRU", "Performance" >>,
       << 6, "MBE", "Security" >>,
       << 8, "MCOMMIT", "Performance" >>,
       << 9, "WBNOINVD", "Performance" >>,
       << 12, "IBPB", "Security" >>,
       << 13, "INT_WBINVD", "System" >>,
       << 14, "IBRS", "Security" >>,
       << 15, "STIBP", "Security" >>,
       << 16, "IBRS_ALWAYS_ON", "Security" >>,
       << 17, "STIBP_ALWAYS_ON", "Security" >>,
       << 18, "IBRS_PREFERRED", "Security" >>,
       << 19, "IBRS_SAME_MODE", "Security" >>,
       << 20, "NO_EFER_LMSLE", "System" >>,
       << 23, "PPIN", "Security" >>,
       << 24, "SSBD", "Security" >>,
       << 25, "VIRT_SSBD", "Security" >>,
       << 26, "SSB_NO", "Security" >>,
       << 28, "PSFD", "Security" >>
    >>

detect_amd_extended_ecx_features ==
    <<
       << 0, "PERFCTR_CORE", "Performance" >>,
       << 1, "PERFCTR_NB", "Performance" >>
    >>

detect_intel_specific_eax_features ==
    <<
       << 0, "XSAVEOPT", "Performance" >>,
       << 1, "XSAVEC", "Performance" >>,
       << 2, "XGETBV_ECX1", "System" >>,
       << 3, "XSAVES", "System" >>,
       << 4, "XFD", "System" >>
    >>

detect_intel_specific_pt_features ==
    <<
       << 0, "PT_LIP", "Debug" >>,
       << 1, "PT_MTC", "Debug" >>,
       << 2, "PT_PTWRITE", "Debug" >>,
       << 3, "PT_POWER_EVENT", "Debug" >>
    >>

detect_leaf7_sub3_edx_features ==
    <<
       << 0, "AVX10_128", "Simd" >>,
       << 1, "AVX10_256", "Simd" >>,
       << 2, "AVX10_512", "Simd" >>
    >>

detect_thermal_power_eax_features ==
    <<
       << 0, "DTHERM", "Power" >>,
       << 1, "TURBO_BOOST", "Power" >>,
       << 2, "ARAT", "Power" >>,
       << 4, "PLN", "Power" >>,
       << 5, "ECMD", "Power" >>,
       << 6, "PTM", "Power" >>,
       << 7, "HWP", "Power" >>,
       << 8, "HWP_NOTIFICATION", "Power" >>,
       << 9, "HWP_ACTIVITY_WINDOW", "Power" >>,
       << 10, "HWP_ENERGY_PERF", "Power" >>,
       << 11, "HWP_PACKAGE", "Power" >>,
       << 13, "HDC", "Power" >>,
       << 14, "TURBO_BOOST_3", "Power" >>,
       << 15, "HWP_CAPABILITIES", "Power" >>,
       << 16, "HWP_PECI", "Power" >>,
       << 17, "HWP_FLEXIBLE", "Power" >>,
       << 18, "HWP_FAST_ACCESS", "Power" >>,
       << 19, "HW_FEEDBACK", "Performance" >>,
       << 20, "IGNORE_IDLE", "Power" >>,
       << 23, "THREAD_DIRECTOR", "Performance" >>,
       << 24, "THERM_INTERRUPT", "Power" >>
    >>

detect_thermal_power_ecx_features ==
    <<
       << 0, "HW_FEEDBACK_PERF", "Performance" >>,
       << 1, "HW_FEEDBACK_SIZE", "Performance" >>,
       << 3, "PERF_PREF", "Performance" >>
    >>

detect_perfmon_ebx_features ==
    <<
       << 0, "PERFMON_CORE_CYCLES", "Performance" >>,
       << 1, "PERFMON_INSTR_RETIRED", "Performance" >>,
       << 2, "PERFMON_REF_CYCLES", "Performance" >>,
       << 3, "PERFMON_LLC_REF", "Performance" >>,
       << 4, "PERFMON_LLC_MISSES", "Performance" >>,
       << 5, "PERFMON_BR_INSTR", "Performance" >>,
       << 6, "PERFMON_BR_MISPREDICT", "Performance" >>
    >>

detect_perfmon_edx_features ==
    <<
       << 0, "PERFMON_FIXED_CTR0", "Performance" >>,
       << 1, "PERFMON_FIXED_CTR1", "Performance" >>,
       << 2, "PERFMON_FIXED_CTR2", "Performance" >>,
       << 15, "PERFMON_ANYTHREAD_DEPRECATED", "Performance" >>
    >>

detect_rdt_ebx_features ==
    <<
       << 1, "RDT_L3_MONITORING", "Performance" >>,
       << 2, "RDT_L2_MONITORING", "Performance" >>,
       << 3, "RDT_MBA", "Performance" >>
    >>

detect_sgx_extended_eax_features ==
    <<
       << 0, "SGX1", "Security" >>,
       << 1, "SGX2", "Security" >>,
       << 5, "ENCLV", "Security" >>,
       << 6, "ENCLS", "Security" >>
    >>

detect_amd_svm_edx_features ==
    <<
       << 0, "SVM_NPT", "Virtualization" >>,
       << 1, "SVM_LBR_VIRT", "Virtualization" >>,
       << 2, "SVM_LOCK", "Virtualization" >>,
       << 3, "SVM_NRIP", "Virtualization" >>,
       << 4, "SVM_TSC_RATE", "Virtualization" >>,
       << 5, "SVM_VMCB_CLEAN", "Virtualization" >>,
       << 6, "SVM_FLUSH_BY_ASID", "Virtualization" >>,
       << 7, "SVM_DECODE_ASSISTS", "Virtualization" >>,
       << 10, "SVM_PAUSE_FILTER", "Virtualization" >>,
       << 12, "SVM_PAUSE_THRESHOLD", "Virtualization" >>,
       << 13, "SVM_AVIC", "Virtualization" >>,
       << 15, "SVM_V_VMSAVE_VMLOAD", "Virtualization" >>,
       << 16, "SVM_VGIF", "Virtualization" >>,
       << 17, "SVM_GMET", "Virtualization" >>,
       << 18, "SVM_X2AVIC", "Virtualization" >>,
       << 19, "SVM_SSSE_ERR", "Virtualization" >>,
       << 20, "SVM_SPEC_CTRL", "Security" >>,
       << 21, "SVM_ROGPT", "Virtualization" >>,
       << 23, "SVM_HOST_MCE_OVERRIDE", "Virtualization" >>,
       << 24, "SVM_INVLPGB", "Virtualization" >>,
       << 25, "SVM_VNMI", "Virtualization" >>,
       << 26, "SVM_IBS_VIRT", "Virtualization" >>,
       << 27, "SVM_EXT_LVT", "Virtualization" >>
    >>

detect_amd_memory_encryption_eax_features ==
    <<
       << 0, "SME", "Security" >>,
       << 1, "SEV", "Security" >>,
       << 2, "PAGE_FLUSH_MSR", "Security" >>,
       << 3, "SEV_ES", "Security" >>,
       << 4, "SEV_SNP", "Security" >>,
       << 5, "VMPL", "Security" >>,
       << 6, "RMPQUERY", "Security" >>,
       << 7, "VMPL_SSS", "Security" >>,
       << 8, "SECURE_TSC", "Security" >>,
       << 9, "TSC_AUX_VIRT", "Virtualization" >>,
       << 10, "HW_CACHE_COHERENCY", "Security" >>,
       << 11, "64BIT_HOST", "Security" >>,
       << 12, "REST_INJ", "Security" >>,
       << 13, "ALT_INJ", "Security" >>,
       << 14, "DEBUG_SWAP", "Debug" >>,
       << 15, "PREVENT_HOST_IBS", "Security" >>,
       << 16, "VTE", "Security" >>,
       << 17, "VMGEXIT_PARAM", "Virtualization" >>,
       << 18, "VIRT_TOM_MSR", "Virtualization" >>,
       << 19, "IBS_VIRT_GIF", "Virtualization" >>,
       << 24, "VMSA_REG_PROT", "Security" >>,
       << 25, "SMT_PROTECTION", "Security" >>,
       << 28, "SECURE_AVIC", "Security" >>
    >>

detect_amd_extended_features2_eax_features ==
    <<
       << 0, "NO_NESTED_DATA_BP", "Security" >>,
       << 1, "FS_GS_NO_SERIALIZING", "Performance" >>,
       << 2, "LFENCE_SERIALIZING", "Security" >>,
       << 3, "SMM_PG_CFG_LOCK", "Security" >>,
       << 6, "NULL_SEL_CLEARS_BASE", "System" >>,
       << 7, "UAI", "Memory" >>,
       << 8, "AUTO_IBRS", "Security" >>,
       << 9, "NO_SMM_CTL_MSR", "Security" >>,
       << 10, "FSRS", "Performance" >>,
       << 11, "FSRC", "Performance" >>,
       << 13, "PREFETCH_CTL", "Performance" >>,
       << 17, "CPUID_DIS", "Security" >>,
       << 18, "EPSF", "Security" >>,
       << 19, "AGPR", "Performance" >>
    >>

detect_amd_perf_optimization_eax_features ==
    <<
       << 0, "FP128", "Simd" >>,
       << 1, "MOVU", "Simd" >>,
       << 2, "FP256", "Simd" >>
    >>

\* A feature name: a literal, or a literal followed by a number
\* (format!("AVX10_V{}", version)).
Name(s) == [s |-> s, n |-> 0]
NameV(s, n) == [s |-> s, n |-> n]

Feature(name, category, supported) ==
    [name |-> name, category |-> category, supported |-> supported]

\* The loop over a bit table: one entry per row, supported iff the bit of the
\* register is set.
table_features(table, reg) ==
    [i \in 1..Len(table) |->
        Feature(Name(table[i][2]), table[i][3], TestBit(reg, table[i][1]))]

\* The leaf 0xA EBX table decoded with the polarity of the other tables.
table_features_if_clear_polarity_kept(table, reg) ==
    [i \in 1..Len(table) |->
        Feature(Name(table[i][2]), table[i][3], TestBit(reg, table[i][1]))]

\* The loop over the leaf 0xA EBX table: supported iff the bit is clear.
table_features_if_clear(table, reg) ==
    [i \in 1..Len(table) |->
        Feature(Name(table[i][2]), table[i][3], ~TestBit(reg, table[i][1]))]

detect_leaf1_ecx(ecx) == table_features(detect_leaf1_ecx_feature_map, ecx)

detect_leaf7 ==
    LET result == cpuid(LStd(7), 0)
    IN  [ features |-> table_features(detect_leaf7_ebx_features, result.ebx)
                       \o table_features(detect_leaf7_ecx_features, result.ecx)
                       \o table_features(detect_leaf7_edx_features, result.edx),
          ev |-> Probe(LStd(7), 0) ]

detect_leaf7_sub1 ==
    LET result == cpuid(LStd(7), 1)
    IN  [ features |-> table_features(detect_leaf7_sub1_eax_features, result.eax)
                       \o table_features(detect_leaf7_sub1_ebx_features, result.ebx)
                       \o table_features(detect_leaf7_sub1_edx_features, result.edx),
          ev |-> Probe(LStd(7), 1) ]

detect_leaf7_sub2 ==
    LET result == cpuid(LStd(7), 2)
    IN  [ features |-> table_features(detect_leaf7_sub2_edx_features, result.edx),
          ev |-> Probe(LStd(7), 2) ]

detect_leaf7_sub3 ==
    LET sup    == is_leaf_supported(LStd(7))
        result == cpuid(LStd(7), 3)
    IN  [ features |-> When(sup, table_features(detect_leaf7_sub3_edx_features, result.edx)),
          ev |-> Gate(LStd(7)) \o When(sup, Probe(LStd(7), 3)) ]

detect_thermal_power ==
    LET sup    == is_leaf_supported(LStd(6))
        result == cpuid(LStd(6), 0)
    IN  [ features |-> When(sup,
                            table_features(detect_thermal_power_eax_features, result.eax)
                            \o table_features(detect_thermal_power_ecx_features, result.ecx)),
          ev |-> Gate(LStd(6)) \o When(sup, Probe(LStd(6), 0)) ]

detect_perfmon ==
    LET sup     == is_leaf_supported(LStd(10))
        result  == cpuid(LStd(10), 0)
        version == ShrAnd(result.eax, 0, 255)
    IN  [ features |-> When(sup,
                            When(version > 0,
                                 << Feature(NameV("PERFMON_V", version), "Performance", TRUE) >>)
                            \o table_features_if_clear(detect_perfmon_ebx_features, result.ebx)
                            \o table_features(detect_perfmon_edx_features, result.edx)),
          ev |-> Gate(LStd(10)) \o When(sup, Probe(LStd(10), 0)) ]

detect_rdt ==
    LET sup       == is_leaf_supported(LStd(16))
        result    == cpuid(LStd(16), 0)
        l3        == TestBit(result.ebx, 1)
        l2        == TestBit(result.ebx, 2)
        l3_result == cpuid(LStd(16), 1)
        l2_result == cpuid(LStd(16), 2)
    IN  [ features |-> When(sup,
                            table_features(detect_rdt_ebx_features, result.ebx)
                            \o When(l3 /\ l3_result.eax # Zero,
                                    << Feature(Name("RDT_L3_CAT"), "Performance", TRUE) >>)
                            \o When(l3 /\ TestBit(l3_result.ecx, 2),
                                    << Feature(Name("RDT_L3_CDP"), "Performance", TRUE) >>)
                            \o When(l2 /\ l2_result.eax # Zero,
                                    << Feature(Name("RDT_L2_CAT"), "Performance", TRUE) >>)),
          ev |-> Gate(LStd(16))
                 \o When(sup, Probe(LStd(16), 0) \o When(l3, Probe(LStd(16), 1))
                              \o When(l2, Probe(LStd(16), 2))) ]

detect_sgx_extended ==
    LET sup    == is_leaf_supported(LStd(18))
        result == cpuid(LStd(18), 0)
        sub1   == cpuid(LStd(18), 1)
    IN  [ features |-> When(sup,
                            table_features(detect_sgx_extended_eax_features, result.eax)
                            \o When(TestBit(result.ebx, 0),
                                    << Feature(Name("SGX_MISCSELECT"), "Security", TRUE) >>)
                            \o When(sub1 # ZeroRegs,
                                    << Feature(Name("SGX_ATTRIBUTES"), "Security", TRUE) >>)),
          ev |-> Gate(LStd(18)) \o When(sup, Probe(LStd(18), 0) \o Probe(LStd(18), 1)) ]

detect_address_translation ==
    LET sup    == is_leaf_supported(LStd(24))
        result == cpuid(LStd(24), 0)
    IN  [ features |-> When(sup /\ result.eax # Zero,
                            << Feature(Name("DAT_ENUM"), "Memory", TRUE) >>),
          ev |-> Gate(LStd(24)) \o When(sup, Probe(LStd(24), 0)) ]

detect_avx10 ==
    LET sup     == is_leaf_supported(LStd(36))
        result  == cpuid(LStd(36), 0)
        version == ShrAnd(result.ebx, 0, 255)
    IN  [ features |-> When(sup,
                            When(version > 0,
                                 << Feature(NameV("AVX10_V", version), "Simd", TRUE) >>)
                            \o When(TestBit(result.ebx, 16),
                                    << Feature(Name("AVX10_128"), "Simd", TRUE) >>)
                            \o When(TestBit(result.ebx, 17),
                                    << Feature(Name("AVX10_256"), "Simd", TRUE) >>)
                            \o When(TestBit(result.ebx, 18),
                                    << Feature(Name("AVX10_512"), "Simd", TRUE) >>)),
          ev |-> Gate(LStd(36)) \o When(sup, Probe(LStd(36), 0)) ]

detect_extended_features ==
    LET result == cpuid(LExt(1), 0)
    IN  [ features |-> table_features(detect_extended_features_edx_features, result.edx)
                       \o table_features(detect_extended_features_ecx_features, result.ecx),
          ev |-> Probe(LExt(1), 0) ]

detect_amd_extended ==
    LET result == cpuid(LExt(8), 0)
    IN  [ features |-> table_features(detect_amd_extended_ebx_features, result.ebx)
                       \o table_features(detect_amd_extended_ecx_features, result.ecx),
          ev |-> Probe(LExt(8), 0) ]

\* The AMD decoders that test one register of one gated leaf.
amd_single_table(leaf, table, register) ==
    LET sup    == is_leaf_supported(leaf)
        result == cpuid(leaf, 0)
    IN  [ features |-> When(sup, table_features(table, RegisterOf(result, register))),
          ev |-> Gate(leaf) \o When(sup, Probe(leaf, 0)) ]

detect_amd_svm == amd_single_table(LExt(10), detect_amd_svm_edx_features, "Edx")

detect_amd_perf_optimization ==
    amd_single_table(LExt(26), detect_amd_perf_optimization_eax_features, "Eax")

detect_amd_memory_encryption ==
    amd_single_table(LExt(31), detect_amd_memory_encryption_eax_features, "Eax")

detect_amd_extended_features2 ==
    amd_single_table(LExt(33), detect_amd_extended_features2_eax_features, "Eax")

\* A leaf of detect_intel_specific whose support alone is the feature.
intel_presence(leaf, name, category) ==
    [ features |-> When(is_leaf_supported(leaf), << Feature(Name(name), category, TRUE) >>),
      ev |-> Gate(leaf) ]

detect_intel_specific ==
    LET supD  == is_leaf_supported(LStd(13))
        sup14 == is_leaf_supported(LStd(20))
        rD    == cpuid(LStd(13), 1)
        r14   == cpuid(LStd(20), 0)
        p1F   == intel_presence(LStd(31), "TOPOLOGY_V2", "System")
        p1A   == intel_presence(LStd(26), "HYBRID_INFO", "System")
        p1B   == intel_presence(LStd(27), "PCONFIG_ENUM", "Security")
        p1C   == intel_presence(LStd(28), "LBR_INFO", "Debug")
        p1D   == intel_presence(LStd(29), "TILE_INFO", "Simd")
        p1E   == intel_presence(LStd(30), "TMUL_INFO", "Simd")
    IN  [ features |-> When(supD, table_features(detect_intel_specific_eax_features, rD.eax))
                       \o When(sup14, table_features(detect_intel_specific_pt_features, r14.ebx))
                       \o p1F.features \o p1A.features \o p1B.features
                       \o p1C.features \o p1D.features \o p1E.features,
          ev |-> Gate(LStd(13)) \o When(supD, Probe(LStd(13), 1))
                 \o Gate(LStd(20)) \o When(sup14, Probe(LStd(20), 0))
                 \o p1F.ev \o p1A.ev \o p1B.ev \o p1C.ev \o p1D.ev \o p1E.ev ]

\* A decoder of CpuFeatures::detect run behind `if is_leaf_supported(leaf)`.
Gated(leaf, d) ==
    LET sup == is_leaf_supported(leaf)
    IN  [ features |-> When(sup, d.features), ev |-> Gate(leaf) \o When(sup, d.ev) ]

\* The steps of CpuFeatures::detect after leaf 1, in program order.
CpuFeatures_steps ==
    << Gated(LStd(7), detect_leaf7),
       Gated(LStd(7), detect_leaf7_sub1),
       Gated(LStd(7), detect_leaf7_sub2),
       Gated(LStd(7), detect_leaf7_sub3),
       Gated(LStd(6), detect_thermal_power),
       Gated(LStd(10), detect_perfmon),
       Gated(LStd(16), detect_rdt),
       Gated(LStd(18), detect_sgx_extended),
       Gated(LStd(24), detect_address_translation),
       Gated(LStd(36), detect_avx10),
       Gated(LExt(1), detect_extended_features),
       Gated(LExt(8), detect_amd_extended),
       Gated(LExt(10), detect_amd_svm),
       Gated(LExt(26), detect_amd_perf_optimization),
       Gated(LExt(31), detect_amd_memory_encryption),
       Gated(LExt(33), detect_amd_extended_features2),
       detect_intel_specific >>

\* all_features keyed by name: an entry replaces the earlier entries of its
\* name.
RECURSIVE ConcatFeatures_keyed_by_name(_)
ConcatFeatures_keyed_by_name(steps) ==
    IF steps = << >> THEN << >>
    ELSE LET rest == ConcatFeatures_keyed_by_name(Tail(steps))
         IN  SelectSeq(Head(steps).features,
                       LAMBDA f : \A k \in 1..Len(rest) : rest[k].name # f.name)
             \o rest

RECURSIVE ConcatFeatures(_)
ConcatFeatures(steps) ==
    IF steps = << >> THEN << >>
    ELSE Head(steps).features \o ConcatFeatures(Tail(steps))

RECURSIVE ConcatEv(_)
ConcatEv(steps) ==
    IF steps = << >> THEN << >> ELSE Head(steps).ev \o ConcatEv(Tail(steps))

CpuFeatures_detect ==
    LET sup1   == is_leaf_supported(LStd(1))
        result == cpuid(LStd(1), 0)
    IN  [ out |-> [ basic        |-> IF sup1 THEN detect_leaf1_edx(result.edx) ELSE {},
                    all_features |-> When(sup1, detect_leaf1_ecx(result.ecx))
                                     \o ConcatFeatures(CpuFeatures_steps) ],
          ev  |-> Gate(LStd(1)) \o When(sup1, Probe(LStd(1), 0))
                  \o ConcatEv(CpuFeatures_steps),
          panic |-> "none" ]

\* Lookup by name answering with the last entry of that name.
has_feature_last_entry(features, name) ==
    \E i \in 1..Len(features.all_features) :
        /\ features.all_features[i].name = name
        /\ features.all_features[i].supported
        /\ \A j \in (i + 1)..Len(features.all_features) :
              features.all_features[j].name # name

has_feature(features, name) ==
    \E i \in 1..Len(features.all_features) :
        features.all_features[i].name = name /\ features.all_features[i].supported

-----------------------------------------------------------------------------
(* Hardware: the probe functions a pass is run against *)

\* The probe function that answers `regs` at (leaf, subleaf).
At(leaf, subleaf, regs) == << leaf, subleaf >> :> regs

\* The probe function that answers table[i] at (leaf, i - 1).
RECURSIVE Subleaves(_, _)
Subleaves(leaf, table) ==
    IF table = << >> THEN << >>
    ELSE At(leaf, Len(table) - 1, table[Len(table)])
         @@ Subleaves(leaf, SubSeq(table, 1, Len(table) - 1))

\* The registers EBX, EDX, ECX that spell a 12-byte vendor identification.
VendorBytes(eax, b) ==
    Regs(eax, from_le_bytes(SubSeq(b, 1, 4)), from_le_bytes(SubSeq(b, 9, 12)),
         from_le_bytes(SubSeq(b, 5, 8)))

\* Leaf 0 and leaf 0x8000_0000: the two maxima and the vendor bytes.
Maxima(max_std, max_ext, vendor_bytes) ==
    At(LStd(0), 0, VendorBytes(max_std, vendor_bytes))
    @@ At(LExt(0), 0, Regs(max_ext, Zero, Zero, Zero))

\* A leaf 0xB subleaf of the given level type and width (ECX[7:0] is the
\* subleaf number), and a leaf 0xB table from a list of <<type, width>>.
LevelRegs(subleaf, level_type, width) ==
    Regs(W(0, 1), W(0, width), W(0, level_type * 256 + subleaf), Zero)

LeafB(levels) ==
    Subleaves(LStd(11),
              [i \in 1..Len(levels) |-> LevelRegs(i - 1, levels[i][1], levels[i][2])])

\* A leaf 4 subleaf: type, level, EAX[25:14], EBX, ECX.
CacheRegs(type, level, shared, ebx, ecx) ==
    Regs(W(shared \div 4, (shared % 4) * 16384 + level * 32 + type), ebx, ecx, Zero)

\* A desktop part with every leaf of the decoders present: 8 cores, 16
\* threads, four deterministic caches, a leaf 0xB with an SMT and a core
\* level, and the legacy leaves of an AMD part behind the extended range.
BaseLeaves ==
    At(LStd(1), 0, Regs(W(\h0009, \h06EA), W(\h0010, \h0800),
                        W(\h7FFA, \hFBFF), W(\hBFEB, \hFBFF)))
    @@ Subleaves(LStd(4),
         << CacheRegs(1, 1, 1, W(\h01C0, \h003F), W(0, 63)),
            CacheRegs(2, 1, 1, W(\h01C0, \h003F), W(0, 63)),
            CacheRegs(3, 2, 1, W(\h00C0, \h003F), W(0, 1023)),
            CacheRegs(3, 3, 15, W(\h03C0, \h003F), W(0, 16383)) >>)
    @@ At(LStd(6), 0, Regs(W(\h0000, \h27F7), W(0, 2), W(0, 9), Zero))
    @@ At(LStd(7), 0, Regs(W(0, 2), W(\h029C, \h67AF), W(\h0040, \h8000), W(\hBC00, \h8410)))
    @@ At(LStd(7), 1, Regs(W(0, \h0010), W(0, 1), Zero, W(0, \h0030)))
    @@ At(LStd(10), 0, Regs(W(\h0730, \h0404), Zero, Zero, W(0, \h0603)))
    @@ LeafB(<< << 1, 2 >>, << 2, 16 >> >>)
    @@ At(LStd(13), 1, Regs(W(0, 15), Zero, Zero, Zero))
    @@ At(LStd(21), 0, Regs(W(0, 2), W(0, 300), Zero, Zero))
    @@ At(LStd(22), 0, Regs(W(0, 3600), W(0, 5000), W(0, 100), Zero))
    @@ Subleaves(LStd(24),
         << Regs(W(0, 1), W(\h0004, \h0001), W(0, 16), W(0, \h0021)),
            Regs(W(0, 1), W(\hFFFF, \h0003), W(0, 1), W(0, \h0043)) >>)
    @@ At(LExt(1), 0, Regs(Zero, Zero, W(0, \h0121), W(\h2C10, \h0800)))
    @@ At(LExt(2), 0, Regs(W(\h2055, \h5043), W(\h6C65, \h646F), W(\h3320, \h204D), W(\h7A48, \h4720)))
    @@ At(LExt(3), 0, Regs(W(\h2020, \h2020), W(\h2020, \h2020), W(\h2020, \h2020), W(\h2020, \h2020)))
    @@ At(LExt(4), 0, Regs(W(\h2020, \h2020), W(\h2020, \h2020), W(\h0000, \h2020), Zero))
    @@ At(LExt(5), 0, Regs(W(\hFF40, \hFF40), W(\hFF40, \hFF40),
                           W(\h2008, \h0140), W(\h2008, \h0140)))
    @@ At(LExt(6), 0, Regs(W(\h2400, \h6400), W(\h6400, \h6400),
                           W(\h0200, \h6140), W(\h0080, \h9140)))
    @@ At(LExt(7), 0, Regs(Zero, Zero, Zero, W(0, \h0100)))
    @@ At(LExt(8), 0, Regs(W(0, \h3027), W(\h0080, \h0001), Zero, Zero))

\* "GenuineIntel" and the other 12-byte identifications the passes are run on.
VendorIds ==
    { STR_GenuineIntel, STR_AuthenticAMD, STR_HygonGenuine, STR_Shanghai,
      \* the bytes of "GenuineIntel" in EBX, ECX, EDX order
      << 71, 101, 110, 117, 110, 116, 101, 108, 105, 110, 101, 73 >>,
      \* "GenuineIntel" with the last byte changed, and in lower case
      << 71, 101, 110, 117, 105, 110, 101, 73, 110, 116, 101, 0 >>,
      << 103, 101, 110, 117, 105, 110, 101, 105, 110, 116, 101, 108 >>,
      \* "KVMKVMKVM" padded with NULs, and twelve NULs
      << 75, 86, 77, 75, 86, 77, 75, 86, 77, 0, 0, 0 >>,
      << 0, 0, 0, 0, 0, 0, 0, 0, 0, 0, 0, 0 >>,
      \* bytes that are not UTF-8: 0xFF, and "AuthenticAMD" with 0xC3 for 'c'
      << 255, 255, 255, 255, 255, 255, 255, 255, 255, 255, 255, 255 >>,
      << 65, 117, 116, 104, 101, 110, 116, 105, 195, 65, 77, 68 >>,
      \* valid UTF-8 beyond ASCII: "Genuine" + U+00E9 + "tel"
      << 71, 101, 110, 117, 105, 110, 101, 195, 169, 116, 101, 108 >> }

\* The maxima EAX of leaf 0 and of leaf 0x8000_0000 can hold.
MaxStdValues ==
    { W(0, 0), W(0, 1), W(0, 3), W(0, 4), W(0, 6), W(0, 7), W(0, 10), W(0, 11),
      W(0, 13), W(0, 22), W(0, 24), W(0, 36), W(\h7FFF, \hFFFF), W(\hFFFF, \hFFFF) }

MaxExtValues ==
    { W(0, 0), W(0, 36), LExt(0), LExt(4), LExt(5), LExt(6), LExt(8), LExt(33),
      W(\hFFFF, \hFFFF) }

FullStd == W(0, 36)
FullExt == LExt(33)

\* Hardware that differs in the two maxima.
HwMaxima ==
    { Maxima(ms, me, STR_GenuineIntel) @@ BaseLeaves :
        ms \in MaxStdValues, me \in MaxExtValues }

\* Signature words (leaf 1 EAX).
Signatures ==
    { W(\h0009, \h06EA), W(\h00A2, \h0F12), W(\h0FFF, \h0FFF), W(\h0F00, \h0F00),
      W(\h000F, \h0633), W(\h0001, \h0F41), W(\h00F0, \h05F3), W(\h0FF0, \h0E00),
      Zero, W(\hFFFF, \hFFFF), W(\h0123, \h4567), W(\h0805, \h0F00) }

\* Hardware that differs in the vendor identification and the signature:
\* every identification with two signatures, every signature with two
\* identifications, with and without leaf 1 in the standard range.
HwVendor ==
    { Maxima(ms, FullExt, v) @@ At(LStd(1), 0, Regs(sig, Zero, Zero, Zero)) @@ BaseLeaves :
        ms \in { W(0, 0), FullStd },
        v \in VendorIds, sig \in { W(\h0009, \h06EA), W(\h00A2, \h0F12) } }
    \cup
    { Maxima(ms, FullExt, v) @@ At(LStd(1), 0, Regs(sig, Zero, Zero, Zero)) @@ BaseLeaves :
        ms \in { W(0, 0), FullStd },
        v \in { STR_GenuineIntel, STR_AuthenticAMD }, sig \in Signatures }

\* The longest leaf 0xB level list drawn, and its level types and widths.
MaxLevels == 2

\* The <<level type, width>> pairs of a drawn level: the end of the list
\* (type 0), SMT (1) and core (2) levels of several widths, a die level (5).
Levels ==
    { << 0, 0 >>, << 5, 1 >> } \cup ({ 1 } \X { 0, 1, 2 }) \cup ({ 2 } \X { 0, 3, 16 })

RECURSIVE SeqsUpTo(_, _)
SeqsUpTo(S, n) ==
    IF n = 0 THEN { << >> }
    ELSE LET shorter == SeqsUpTo(S, n - 1)
         IN  shorter \cup { Append(s, x) : s \in { t \in shorter : Len(t) = n - 1 }, x \in S }

\* k subleaves of level type 5 (die) in front of a level list.
Padded(k, levels) == [i \in 1..k |-> << 5, 1 >>] \o levels

\* Hardware that differs in leaf 0xB, the leaf 1 thread count and HTT flag,
\* and the leaf 4 core count: with leaf 0xB, without it, and without leaf 4.
HwTopology ==
    { Maxima(FullStd, FullExt, STR_GenuineIntel) @@ LeafB(Padded(k, levels)) @@ BaseLeaves :
        k \in { 0, 8, 9 }, levels \in SeqsUpTo(Levels, MaxLevels) }
    \cup
    { Maxima(ms, FullExt, STR_GenuineIntel)
      @@ At(LStd(1), 0, Regs(W(\h0009, \h06EA), W(count, \h0800), Zero, W(htt * 4096, 0)))
      @@ At(LStd(4), 0, CacheRegs(1, 1, cores * 4096, W(\h01C0, \h003F), W(0, 63)))
      @@ BaseLeaves :
        ms \in { W(0, 0), W(0, 1), W(0, 3), W(0, 4), W(0, 10) },
        count \in { 0, 1, 2, 16, 255 }, htt \in { 0, 1 }, cores \in { 0, 1, 7, 63 } }

\* Leaf 4 EBX (ways, partitions, line size) and ECX (sets - 1) contents.
CacheEbx ==
    { W(\h01C0, \h003F), Zero, W(\hFFFF, \hFFFF), W(\h03C0, \h003F), W(\hFFC0, \h0FFF) }

CacheEcx ==
    { W(0, 63), Zero, W(0, 16383), W(\h00FF, \hFFFF), W(\hFFFF, \hFFFE), W(\hFFFF, \hFFFF) }

\* Hardware that differs in subleaf 0 of leaf 4 (subleaves 1..4 are the
\* four caches of BaseLeaves): every EBX and ECX for a level 1 data cache,
\* every cache type and level for two EBX and ECX; and hardware with more
\* than 32 subleaves.
Leaf4With(first) ==
    Maxima(FullStd, FullExt, STR_GenuineIntel)
    @@ Subleaves(LStd(4), << first >> \o [i \in 1..4 |-> BaseLeaves[<< LStd(4), i - 1 >>]])
    @@ BaseLeaves

HwCache ==
    { Leaf4With(CacheRegs(1, 1, 1, ebx, ecx)) : ebx \in CacheEbx, ecx \in CacheEcx }
    \cup
    { Leaf4With(CacheRegs(type, level, 1, ebx, ecx)) :
        type \in { 0, 1, 2, 3, 4 }, level \in { 0, 1, 4, 5 },
        ebx \in { W(\h01C0, \h003F), W(\hFFFF, \hFFFF) },
        ecx \in { W(0, 63), W(\hFFFF, \hFFFF) } }
    \cup
    { Maxima(FullStd, FullExt, STR_GenuineIntel)
      @@ Subleaves(LStd(4), [i \in 1..n |-> CacheRegs(1 + (i % 3), 1 + (i % 4), i,
                                                      W(\h01C0, \h003F), W(0, 63))])
      @@ BaseLeaves :
        n \in { 31, 32, 33, 34 } }

\* Leaf 0x8000_0005 ECX/EDX (size KB, ways, lines per tag, line size) and
\* leaf 0x8000_0006 ECX/EDX contents.
LegacyL1 ==
    { W(\h2008, \h0140), Zero, W(\h4000, \h0040), W(\h4008, \h0100), W(\h00FF, \h00FF),
      W(\hFFFF, \hFFFF) }

LegacyL2 == { W(\h0200, \h6140), Zero, W(\h0200, \h0140), W(\hFFFF, \hFFFF) }

LegacyL3 ==
    { W(\h0080, \h9140), Zero, W(\h0080, \h9000), W(\hFFFF, \hFFFF), W(\h8000, \h1001) }

\* Hardware without leaf 4, which differs in the two legacy cache leaves:
\* every L1 pair with one L2 and L3, and every L2 and L3 pair with one L1.
LegacyWith(me, l1d, l1i, l2, l3) ==
    Maxima(W(0, 3), me, STR_AuthenticAMD)
    @@ At(LExt(5), 0, Regs(W(\hFF40, \hFF40), W(\hFF40, \hFF40), l1d, l1i))
    @@ At(LExt(6), 0, Regs(W(\h2400, \h6400), W(\h6400, \h6400), l2, l3))
    @@ BaseLeaves

HwLegacy ==
    { LegacyWith(me, l1d, l1i, W(\h0200, \h6140), W(\h0080, \h9140)) :
        me \in { LExt(5), LExt(8) }, l1d \in LegacyL1,
        l1i \in { W(\h2008, \h0140), Zero, W(\h4000, \h0040) } }
    \cup
    { LegacyWith(me, l1d, W(\h2008, \h0140), l2, l3) :
        me \in { LExt(5), LExt(8) }, l1d \in { W(\h2008, \h0140), Zero },
        l2 \in LegacyL2, l3 \in LegacyL3 }

\* Hardware that differs in the TLB leaves: subleaf 0 of leaf 0x18, the
\* number of its subleaves, the lanes of leaves 0x8000_0005/6, and every
\* associativity code in the lanes of leaf 0x8000_0006.
HwTlb ==
    { Maxima(FullStd, FullExt, STR_GenuineIntel)
      @@ Subleaves(LStd(24), << Regs(eax, ebx, ecx, edx),
                                Regs(W(0, 1), W(\h0004, \h0001), W(0, 16), W(0, \h0021)) >>)
      @@ BaseLeaves :
        eax \in { Zero, W(0, 1) },
        ebx \in { W(\h0004, \h0001), W(\hFFFF, \h0003), W(\hFFFE, \h0002), Zero },
        ecx \in { W(0, 16), Zero, W(\h0001, \h0001), W(\hFFFF, \hFFFF) },
        edx \in { W(0, \h0021), W(0, \h0043), Zero, W(0, \h0024) } }
    \cup
    { Maxima(FullStd, FullExt, STR_GenuineIntel)
      @@ Subleaves(LStd(24), [i \in 1..n |-> Regs(W(0, 1), W(i, i % 4), W(0, i),
                                                  W(0, 32 + 1 + (i % 3)))])
      @@ BaseLeaves :
        n \in { 9, 10, 11, 12 } }
    \cup
    { Maxima(W(0, 7), me, STR_AuthenticAMD)
      @@ At(LExt(5), 0, Regs(W(l1, \hFF40), W(\h0140, l1), W(\h2008, \h0140), W(\h2008, \h0140)))
      @@ At(LExt(6), 0, Regs(W(l2, \h6400), W(\hB400, l2), W(\h0200, \h6140), W(\h0080, \h9140)))
      @@ BaseLeaves :
        me \in { LExt(4), LExt(5), LExt(6) },
        l1 \in { 0, \h0140, \hFF40, \h0500 },
        l2 \in { 0, \h6400, \hF200, \h9FFF } }
    \cup
    { Maxima(W(0, 7), LExt(6), STR_AuthenticAMD)
      @@ At(LExt(6), 0, Regs(W(code * 4096 + 64, (15 - code) * 4096 + 512),
                             W(code * 4096, code * 4096 + 4095),
                             W(\h0200, \h6140), W(\h0080, \h9140)))
      @@ BaseLeaves :
        code \in 0..15 }

\* The <<leaf, subleaf>> pairs the feature decoder reads, below and above
\* 0x8000_0000.
StdFeatureLeaves ==
    { << LStd(1), 0 >>, << LStd(6), 0 >>, << LStd(7), 0 >>, << LStd(7), 1 >>,
      << LStd(7), 2 >>, << LStd(7), 3 >>, << LStd(10), 0 >>, << LStd(13), 1 >>,
      << LStd(16), 0 >>, << LStd(16), 1 >>, << LStd(16), 2 >>, << LStd(18), 0 >>,
      << LStd(18), 1 >>, << LStd(20), 0 >>, << LStd(24), 0 >>, << LStd(36), 0 >> }

ExtFeatureLeaves ==
    { << LExt(1), 0 >>, << LExt(8), 0 >>, << LExt(10), 0 >>, << LExt(26), 0 >>,
      << LExt(31), 0 >>, << LExt(33), 0 >> }

\* Register contents with no bit, every bit, the even bits and the odd bits set.
Patterns == { Zero, W(\hFFFF, \hFFFF), W(\h5555, \h5555), W(\hAAAA, \hAAAA) }

\* Hardware that differs in the feature leaves: every register of a standard
\* feature leaf holds p and every register of an extended one holds q, for
\* maxima that cut the feature leaves off at several places.
HwFeatures ==
    { Maxima(ms, me, STR_GenuineIntel)
      @@ [l \in StdFeatureLeaves |-> Regs(p, p, p, p)]
      @@ [l \in ExtFeatureLeaves |-> Regs(q, q, q, q)]
      @@ BaseLeaves :
        ms \in { W(0, 0), W(0, 7), W(0, 18), FullStd },
        me \in { LExt(0), LExt(8), FullExt },
        p \in Patterns, q \in Patterns }

\* Hardware on which none of the three subleaf walks is ever told to stop:
\* 34 cache subleaves, 12 die levels in leaf 0xB and 12 TLB subleaves.
HwEndless ==
    { Maxima(FullStd, FullExt, STR_GenuineIntel)
      @@ Subleaves(LStd(4), [i \in 1..34 |-> CacheRegs(1 + (i % 3), 1 + (i % 4), i,
                                                       W(\h01C0, \h003F), W(0, 63))])
      @@ LeafB([i \in 1..12 |-> << 5, 1 >>])
      @@ Subleaves(LStd(24), [i \in 1..12 |-> Regs(W(0, 1), W(i, i % 4), W(0, i),
                                                   W(0, 32 + 1 + (i % 3)))])
      @@ BaseLeaves }

\* Hardware that differs in leaf 0x15 (the denominator, the numerator and
\* the crystal frequency of the TSC ratio) and in whether the leaf is there.
HwFrequency ==
    { Maxima(ms, FullExt, STR_GenuineIntel)
      @@ At(LStd(21), 0, Regs(eax, ebx, ecx, Zero))
      @@ BaseLeaves :
        ms \in { W(0, 20), W(0, 21), FullStd },
        eax \in { Zero, W(0, 1), W(0, 2), W(0, 3), W(\hFFFF, \hFFFF) },
        ebx \in { Zero, W(0, 1), W(0, 300), W(\hFFFF, \hFFFF) },
        ecx \in { Zero, W(0, 1), W(\h017D, \h7840), W(\hFFFF, \hFFFF) } }

\* The word whose little-endian bytes are b1, b2, b3, b4.
Bytes4(b1, b2, b3, b4) == W(b4 * 256 + b3, b2 * 256 + b1)

\* First words of the brand string (leaf 0x8000_0002 EAX): "Inte", four
\* spaces, a tab and a space before "In", four NULs, and bytes that are not
\* UTF-8.
BrandHeads ==
    { Bytes4(73, 110, 116, 101), Bytes4(32, 32, 32, 32), Bytes4(9, 32, 73, 110),
      Zero, W(\hFFFF, \hFFFF) }

\* Last words of the brand string (leaf 0x8000_0004 EDX): "GHz" and a NUL,
\* "ABCD", "AB" and two spaces, "A", a space and two NULs, "A", NUL, space,
\* NUL, three NULs and a space, and four NULs.
BrandTails ==
    { Bytes4(71, 72, 122, 0), Bytes4(65, 66, 67, 68), Bytes4(65, 66, 32, 32),
      Bytes4(65, 32, 0, 0), Bytes4(65, 0, 32, 0), Bytes4(0, 0, 0, 32), Zero }

\* Hardware that differs in the first and the last word of the brand string
\* (the 40 bytes between them spell "l(R) Core(TM) i7-9700K CPU @ 3.60" and
\* spaces), and hardware whose brand leaves hold NULs only.
HwBrand ==
    { Maxima(FullStd, me, STR_GenuineIntel)
      @@ At(LExt(2), 0, Regs(head, Bytes4(108, 40, 82, 41), Bytes4(32, 67, 111, 114),
                             Bytes4(101, 40, 84, 77)))
      @@ At(LExt(3), 0, Regs(Bytes4(41, 32, 105, 55), Bytes4(45, 57, 55, 48),
                             Bytes4(48, 75, 32, 67), Bytes4(80, 85, 32, 64)))
      @@ At(LExt(4), 0, Regs(Bytes4(32, 51, 46, 54), Bytes4(48, 32, 32, 32),
                             Bytes4(32, 32, 32, 32), tail))
      @@ BaseLeaves :
        me \in { LExt(1), FullExt }, head \in BrandHeads, tail \in BrandTails }
    \cup
    { Maxima(FullStd, FullExt, STR_GenuineIntel)
      @@ At(LExt(2), 0, ZeroRegs) @@ At(LExt(3), 0, ZeroRegs) @@ At(LExt(4), 0, ZeroRegs)
      @@ BaseLeaves }

\* Hardware that differs in the registers of single leaves.
HwRegisters == HwFrequency \cup HwBrand

\* Every hardware a detection pass is run against.
Hardware ==
    HwMaxima \cup HwVendor \cup HwTopology \cup HwCache \cup HwLegacy \cup HwTlb \cup HwEndless

\* The two build profiles: overflow checks on ("debug") and off ("release").
Builds == { "debug", "release" }

\* No call of the public API has been made.
NoCall == [ fn |-> "none", leaf |-> Zero, register |-> "Eax", start |-> 0, end |-> 0,
            value |-> Zero, ret |-> Zero, ok |-> FALSE, panic |-> "none" ]

\* Nothing decoded yet.
NoInfo == [ field \in {} |-> {} ]

-----------------------------------------------------------------------------
(* lib.rs: a detection pass, CpuInfo::detect *)

Init ==
    /\ hw \in Hardware
    /\ build \in Builds
    /\ pc = "vendor"
    /\ trace = << >>
    /\ info = NoInfo
    /\ panic = "none"
    /\ call = NoCall

\* One field initialiser of the CpuInfo literal: the decoder's events are
\* issued, and either its value is stored and the next initialiser runs, or
\* its panic unwinds the pass.
Step(field, next, r) ==
    /\ pc = field
    /\ trace' = trace \o r.ev
    /\ IF r.panic # "none"
       THEN pc' = "panic" /\ panic' = r.panic /\ UNCHANGED info
       ELSE pc' = next /\ info' = (field :> r.out) @@ info /\ UNCHANGED panic
    /\ UNCHANGED << hw, build, call >>

VendorDetect    == Step("vendor", "features", VendorInfo_detect)
FeaturesDetect  == Step("features", "topology", CpuFeatures_detect)
TopologyDetect  == Step("topology", "cache", CpuTopology_detect)
CacheDetect     == Step("cache", "power", CacheInfo_detect_all)
PowerDetect     == Step("power", "frequency", PowerInfo_detect)
FrequencyDetect == Step("frequency", "address", FrequencyInfo_detect)
AddressDetect   == Step("address", "tlb", AddressInfo_detect)
TlbDetect       == Step("tlb", "platform", TlbInfo_detect)
PlatformDetect  == Step("platform", "msr", PlatformInfo_detect)
MsrDetect       == Step("msr", "done", MsrInfo_detect)

Next ==
    \/ VendorDetect
    \/ FeaturesDetect
    \/ TopologyDetect
    \/ CacheDetect
    \/ PowerDetect
    \/ FrequencyDetect
    \/ AddressDetect
    \/ TlbDetect
    \/ PlatformDetect
    \/ MsrDetect

Spec == Init /\ [][Next]_vars

\* A detection pass on hardware that differs in the feature leaves.
InitFeatures ==
    /\ hw \in HwFeatures
    /\ build \in Builds
    /\ pc = "vendor"
    /\ trace = << >>
    /\ info = NoInfo
    /\ panic = "none"
    /\ call = NoCall

SpecFeatures == InitFeatures /\ [][Next]_vars

\* A detection pass over the hardware that differs in single leaves.
InitRegisters ==
    /\ hw \in HwRegisters
    /\ build \in Builds
    /\ pc = "vendor"
    /\ trace = << >>
    /\ info = NoInfo
    /\ panic = "none"
    /\ call = NoCall

SpecRegisters == InitRegisters /\ [][Next]_vars

\* A detection pass that is run to its end: CpuInfo::detect is sequential
\* code, the next field initialiser runs as soon as the previous one returns.
\* This is WF_vars(Next) with ENABLED <<Next>>_vars written as the state
\* predicate it equals: a Step is enabled exactly when pc is at its field,
\* so Next is enabled exactly in the positions other than "done" and "panic".
NextEnabled == pc \notin { "done", "panic" }

SpecLive == Init /\ [][Next]_vars /\ ([]<>~NextEnabled \/ []<><<Next>>_vars)

-----------------------------------------------------------------------------
(* cpuid.rs: one call of the public API, from the call to its return *)

\* The leaves is_leaf_supported is called with.
ApiLeaves ==
    { W(0, 0), W(0, 1), W(0, 7), W(0, 8), W(0, 36), W(0, 37), W(\h7FFF, \hFFFF),
      LExt(0), LExt(1), LExt(8), LExt(9), W(\h8001, 0), W(\hFFFF, \hFFFE),
      W(\hFFFF, \hFFFF) }

\* The hardware the calls are made on: every pair of these maxima.
ApiMaxStd == { W(0, 0), W(0, 7), W(0, 36), W(\h7FFF, \hFFFF), LExt(8), W(\hFFFF, \hFFFF) }
ApiMaxExt == { W(0, 0), W(0, 36), LExt(0), LExt(8), W(\hFFFF, \hFFFF) }

HwApi ==
    { Maxima(ms, me, STR_GenuineIntel) @@ BaseLeaves : ms \in ApiMaxStd, me \in ApiMaxExt }

\* Bit positions of a 32-bit register, and the registers of a result.
BitPositions == 0..31
Registers == { "Eax", "Ebx", "Ecx", "Edx" }

InitApi ==
    /\ hw \in HwApi
    /\ build \in Builds
    /\ pc = "api"
    /\ trace = << >>
    /\ info = NoInfo
    /\ panic = "none"
    /\ call = NoCall

\* is_leaf_supported(leaf)
CallIsLeafSupported ==
    /\ pc = "api"
    /\ \E leaf \in ApiLeaves :
          /\ call' = [ NoCall EXCEPT !.fn = "is_leaf_supported", !.leaf = leaf,
                                     !.ok = is_leaf_supported(leaf) ]
          /\ trace' = trace \o Gate(leaf)
    /\ pc' = "returned"
    /\ UNCHANGED << hw, build, info, panic >>

\* cpuid(1, 0).extract_bits(register, start, end)
CallExtractBits ==
    /\ pc = "api"
    /\ \E register \in Registers, start \in BitPositions, end \in BitPositions :
          LET result == cpuid(LStd(1), 0)
              r      == extract_bits(result, register, start, end)
          IN  call' = [ NoCall EXCEPT !.fn = "extract_bits", !.leaf = LStd(1),
                                      !.register = register, !.start = start,
                                      !.end = end, !.value = RegisterOf(result, register),
                                      !.ret = r.ret, !.panic = r.panic ]
    /\ pc' = "returned"
    /\ UNCHANGED << hw, build, trace, info, panic >>

\* cpuid(1, 0).is_bit_set(register, bit)
CallIsBitSet ==
    /\ pc = "api"
    /\ \E register \in Registers, bit \in BitPositions :
          LET result == cpuid(LStd(1), 0)
          IN  call' = [ NoCall EXCEPT !.fn = "is_bit_set", !.leaf = LStd(1),
                                      !.register = register, !.start = bit,
                                      !.end = bit, !.value = RegisterOf(result, register),
                                      !.ok = is_bit_set(result, register, bit) ]
    /\ pc' = "returned"
    /\ UNCHANGED << hw, build, trace, info, panic >>

NextApi ==
    \/ CallIsLeafSupported
    \/ CallExtractBits
    \/ CallIsBitSet

SpecApi == InitApi /\ [][NextApi]_vars

-----------------------------------------------------------------------------
(* Properties *)

\* a <= b as numbers, for two u32 words.
NumLe(a, b) == BnLe(BnOfWord(a), BnOfWord(b))

\* The number held by bits lo..hi of a word (at most 16 bits).
RECURSIVE BitField(_, _, _)
BitField(w, lo, hi) == IF hi < lo THEN 0 ELSE WBit(w, lo) + 2 * BitField(w, lo + 1, hi)

\* The registers leaf 0 and leaf 0x8000_0000 answer on this hardware.
Leaf0 == hw[<< LStd(0), 0 >>]
LeafExt0 == hw[<< LExt(0), 0 >>]

\* The decoder of this CpuInfo field has returned.
Decoded(field) == field \in DOMAIN info

\* The decoder of this CpuInfo field has just returned: the next field's
\* decoder is about to run (a field is written once).
Returns(field) ==
    /\ Decoded(field)
    /\ pc = CASE field = "vendor"    -> "features"
              [] field = "features"  -> "topology"
              [] field = "topology"  -> "cache"
              [] field = "cache"     -> "power"
              [] field = "power"     -> "frequency"
              [] field = "frequency" -> "address"
              [] field = "address"   -> "tlb"
              [] field = "tlb"       -> "platform"
              [] field = "platform"  -> "msr"
              [] field = "msr"       -> "done"

\* C1: is_leaf_supported(leaf) is leaf <= EAX of probe(0, 0) for a leaf below
\* 0x8000_0000 and leaf <= EAX of probe(0x8000_0000, 0) for any other leaf.
C1_GateComparesWithTheMaximumOfTheRange ==
    call.fn = "is_leaf_supported" =>
        call.ok = IF call.leaf.hi < 32768
                  THEN NumLe(call.leaf, Leaf0.eax)
                  ELSE NumLe(call.leaf, LeafExt0.eax)

\* An extended leaf above the extended maximum is refused although the
\* standard maximum is above it.
C1_Witness ==
    /\ call.fn = "is_leaf_supported"
    /\ ~call.ok
    /\ call.leaf = LExt(1)
    /\ LeafExt0.eax = LExt(0)
    /\ Leaf0.eax = W(\hFFFF, \hFFFF)

\* C2: in a detection pass every execution of CPUID on a leaf other than 0
\* and 0x8000_0000 comes after an is_leaf_supported call for that leaf that
\* returned true.
C2_EveryProbeFollowsItsGate ==
    \A i \in 1..Len(trace) :
        (trace[i].op = "cpuid" /\ trace[i].leaf \notin { LStd(0), LExt(0) }) =>
            \E j \in 1..(i - 1) :
                trace[j].op = "gate" /\ trace[j].leaf = trace[i].leaf /\ trace[j].ok

\* C3: a detection pass never panics, whatever the registers hold.
C3_DetectNeverPanics == pc # "panic" /\ panic = "none"

\* C5: for start <= end, extract_bits returns without a panic the bits
\* start..end of the register right-aligned: bit i of the result is bit
\* start + i of the register for i <= end - start and 0 above.
C5_ExtractBitsIsTheInclusiveRange ==
    (call.fn = "extract_bits" /\ call.start <= call.end) =>
        /\ call.panic = "none"
        /\ \A i \in 0..31 :
              WBit(call.ret, i) = IF i <= call.end - call.start
                                  THEN WBit(call.value, call.start + i)
                                  ELSE 0

\* Leaf 4 is in the standard range of this hardware.
Leaf4Supported == Leaf0.eax.hi > 0 \/ Leaf0.eax.lo >= 4

\* The subleaves of leaf 4 the deterministic walk makes an entry of: those
\* below 32 of cache type 1..3 and level 1..4 that no type-0 subleaf precedes.
Leaf4Type(i) == BitField(cpuid(LStd(4), i).eax, 0, 4)
Leaf4Level(i) == BitField(cpuid(LStd(4), i).eax, 5, 7)

Leaf4Entries ==
    SelectSeq([k \in 1..LEAF_4_SUBLEAVES |-> k - 1],
              LAMBDA i : /\ \A j \in 0..i : Leaf4Type(j) # 0
                         /\ Leaf4Type(i) \in 1..3
                         /\ Leaf4Level(i) \in 1..4)

\* ways * partitions * line_size * sets of a leaf 4 subleaf as an exact
\* integer: (EBX[31:22] + 1) * (EBX[21:12] + 1) * (EBX[11:0] + 1) * (ECX + 1).
Leaf4ExactSize(i) ==
    LET r == cpuid(LStd(4), i)
    IN  BnMul(BnMul(BnMul(BnOfInt(BitField(r.ebx, 22, 31) + 1),
                          BnOfInt(BitField(r.ebx, 12, 21) + 1)),
                    BnOfInt(BitField(r.ebx, 0, 11) + 1)),
              BnAdd(BnOfWord(r.ecx), << 1 >>))

\* C6: the size of every entry of the deterministic cache path is the exact
\* product ways * partitions * line_size * sets of its subleaf.
C6_DeterministicSizeIsTheExactProduct ==
    (Returns("cache") /\ Leaf4Supported) =>
        /\ Len(info.cache) = Len(Leaf4Entries)
        /\ \A k \in 1..Len(Leaf4Entries) :
              info.cache[k].size = Leaf4ExactSize(Leaf4Entries[k])

\* Leaf 0xB is in the standard range of this hardware.
LeafBSupported == Leaf0.eax.hi > 0 \/ Leaf0.eax.lo >= 11

\* Level type (ECX[15:8]) and width (EBX[15:0]) of a leaf 0xB subleaf.
LevelTypeAt(i) == BitField(cpuid(LStd(11), i).ecx, 8, 15)
LevelWidthAt(i) == BitField(cpuid(LStd(11), i).ebx, 0, 15)

\* The subleaves 0..9 of level type t that no type-0 subleaf precedes.
LevelsOfType(t) ==
    { i \in 0..(LEAF_B_SUBLEAVES - 1) :
        LevelTypeAt(i) = t /\ \A j \in 0..i : LevelTypeAt(j) # 0 }

\* The first of them.
FirstLevelOfType(t) ==
    CHOOSE i \in LevelsOfType(t) : \A j \in LevelsOfType(t) : i <= j

\* C7: with leaf 0xB supported, an SMT level of width s >= 1 and a core level
\* of width c >= 1 reported before any level of type 0, detect returns
\* threads_per_core = s, logical_processors = c and physical_cores = c / s.
C7_LeafBWidthsGiveTheTopology ==
    (/\ Returns("topology")
     /\ LeafBSupported
     /\ LevelsOfType(1) # {}
     /\ LevelsOfType(2) # {}
     /\ LevelWidthAt(FirstLevelOfType(1)) >= 1
     /\ LevelWidthAt(FirstLevelOfType(2)) >= 1) =>
        LET s == LevelWidthAt(FirstLevelOfType(1))
            c == LevelWidthAt(FirstLevelOfType(2))
        IN  /\ info.topology.threads_per_core = s
            /\ info.topology.logical_processors = c
            /\ info.topology.physical_cores = c \div s

\* Widths 2 and 16 behind eight die levels give 8 cores of 2 threads.
C7_Witness ==
    /\ Returns("topology")
    /\ LeafBSupported
    /\ LevelsOfType(1) = { 8 }
    /\ LevelsOfType(2) = { 9 }
    /\ LevelWidthAt(8) = 2
    /\ LevelWidthAt(9) = 16
    /\ info.topology.physical_cores = 8
    /\ info.topology.threads_per_core = 2
    /\ info.topology.logical_processors = 16

\* C8 as stated: with leaf 0xB supported, physical_cores * threads_per_core
\* is logical_processors whatever the subleaves hold.
C8_ProductIsLogicalProcessors ==
    (Returns("topology") /\ LeafBSupported) =>
        info.topology.physical_cores * info.topology.threads_per_core
            = info.topology.logical_processors

\* C8 as amended: with leaf 0xB supported, physical_cores is the quotient
\* of logical_processors by threads_per_core rounded down when both are at
\* least 1, and 1 otherwise; the product is logical_processors exactly when
\* threads_per_core divides it, or when both counts are 0.
C8_PhysicalCoresIsTheQuotientRoundedDown ==
    (Returns("topology") /\ LeafBSupported) =>
        LET t == info.topology
        IN  /\ (t.logical_processors >= 1 /\ t.threads_per_core >= 1) =>
                  /\ t.physical_cores * t.threads_per_core <= t.logical_processors
                  /\ t.logical_processors < (t.physical_cores + 1) * t.threads_per_core
            /\ (t.logical_processors = 0 \/ t.threads_per_core = 0) => t.physical_cores = 1
            /\ (t.physical_cores * t.threads_per_core = t.logical_processors) <=>
                  \/ t.logical_processors = 0 /\ t.threads_per_core = 0
                  \/ /\ t.logical_processors >= 1
                     /\ t.threads_per_core >= 1
                     /\ t.logical_processors % t.threads_per_core = 0

\* A core level of width 3 over an SMT level of width 2: one core, and the
\* product 2 is not 3.
C8_Witness ==
    /\ Returns("topology")
    /\ LeafBSupported
    /\ LevelsOfType(1) # {}
    /\ LevelsOfType(2) # {}
    /\ info.topology.logical_processors = 3
    /\ info.topology.threads_per_core = 2
    /\ info.topology.physical_cores = 1

\* The signature word: EAX of leaf 1.
Signature == cpuid(LStd(1), 0).eax

\* C9: family is bits 11:8 of the signature plus bits 27:20 when bits 11:8
\* are 0xF; model is bits 19:16 * 16 + bits 7:4 when bits 11:8 are 6 or 0xF
\* and bits 7:4 otherwise; stepping is bits 3:0.
C9_FamilyModelSteppingFolding ==
    Returns("vendor") =>
        LET base_family == BitField(Signature, 8, 11)
        IN  /\ info.vendor.family =
                  IF base_family = 15 THEN 15 + BitField(Signature, 20, 27) ELSE base_family
            /\ info.vendor.model =
                  IF base_family \in { 6, 15 }
                  THEN BitField(Signature, 16, 19) * 16 + BitField(Signature, 4, 7)
                  ELSE BitField(Signature, 4, 7)
            /\ info.vendor.stepping = BitField(Signature, 0, 3)

\* 0x000906EA decodes to family 6, model 0x9E, stepping 10.
C9_Witness ==
    /\ Returns("vendor")
    /\ Signature = W(\h0009, \h06EA)
    /\ info.vendor.family = 6
    /\ info.vendor.model = 158
    /\ info.vendor.stepping = 10

\* The 12 bytes of leaf 0: byte k (0..3) of EBX, then of EDX, then of ECX.
ByteOf(w, k) == BitField(w, 8 * k, 8 * k + 7)

VendorId ==
    [ k \in 1..12 |-> ByteOf(IF k <= 4 THEN Leaf0.ebx ELSE IF k <= 8 THEN Leaf0.edx
                             ELSE Leaf0.ecx,
                             (k - 1) % 4) ]

\* The vendor enum of a 12-byte identification.
VendorOf(id) ==
    CASE id = STR_GenuineIntel -> "Intel"
      [] id = STR_AuthenticAMD -> "Amd"
      [] id = STR_HygonGenuine -> "Hygon"
      [] id = STR_Shanghai     -> "Zhaoxin"
      [] OTHER                 -> "Unknown"

\* C10 as stated: the vendor decoder always returns, the bytes of the vendor
\* string are the 12 bytes of EBX, EDX, ECX, and the vendor is the one of the
\* four known strings these bytes spell, or Unknown.
C10_VendorStringIsTheTwelveBytes ==
    /\ pc # "vendor" => Decoded("vendor")
    /\ Returns("vendor") =>
          /\ as_bytes(info.vendor.vendor_string) = VendorId
          /\ info.vendor.vendor = VendorOf(VendorId)

\* C10 as amended: the vendor decoder always returns; the vendor string is
\* the 12 bytes of EBX, EDX, ECX when these are ASCII, and otherwise either
\* has these bytes as its UTF-8 encoding or holds U+FFFD in place of the
\* bytes that are not UTF-8; the vendor is the one of the four known
\* strings the 12 bytes spell, or Unknown.
C10_VendorStringIsTheLossyDecoding ==
    /\ pc # "vendor" => Decoded("vendor")
    /\ Returns("vendor") =>
          LET s == info.vendor.vendor_string
          IN  /\ (\A k \in 1..12 : VendorId[k] < 128) => s = VendorId
              /\ \/ as_bytes(s) = VendorId
                 \/ \E k \in 1..Len(s) : s[k] = REPLACEMENT_CHARACTER
              /\ info.vendor.vendor = VendorOf(VendorId)

\* "AuthenticAMD" with byte 0xC3 for its 'c' is read as that string with
\* U+FFFD for the 'c', of an Unknown vendor.
C10_Witness ==
    /\ Returns("vendor")
    /\ VendorId = [STR_AuthenticAMD EXCEPT ![9] = 195]
    /\ info.vendor.vendor_string = [STR_AuthenticAMD EXCEPT ![9] = REPLACEMENT_CHARACTER]
    /\ info.vendor.vendor = "Unknown"

\* A standard leaf n, and an extended leaf 0x8000_0000 + n, is within the
\* maximum this hardware reports for its range.
StdSupported(n) == NumLe(LStd(n), Leaf0.eax)
ExtSupported(n) == NumLe(LExt(n), LeafExt0.eax)

\* The positions of all_features that hold an entry of this name.
EntriesNamed(name) ==
    { i \in 1..Len(info.features.all_features) :
        info.features.all_features[i].name = Name(name) }

\* all_features holds exactly one entry of this name, and its supported
\* field is the result of the test.
OneEntry(name, test) ==
    \E i \in EntriesNamed(name) :
        /\ EntriesNamed(name) = { i }
        /\ info.features.all_features[i].supported = test

\* all_features holds one entry of this name more than the `earlier` ones
\* of the leaves decoded before, and the supported field of the last of
\* them is the result of the test.
LastEntry(name, earlier, test) ==
    /\ Cardinality(EntriesNamed(name)) = earlier + 1
    /\ \E i \in EntriesNamed(name) :
          /\ \A j \in EntriesNamed(name) : j <= i
          /\ info.features.all_features[i].supported = test

\* The AVX10 width rows of the leaf 7 subleaf 3 table, decoded before
\* leaf 0x24: one entry each when leaf 7 is supported.
Leaf7Sub3Rows == IF StdSupported(7) THEN 1 ELSE 0

\* C11: every bit test of a supported leaf appends exactly one entry whose
\* supported field is the test result, set or clear: each row of the leaf 1
\* ECX table, the leaf 0x24 AVX10 width bits, the leaf 0x10 allocation
\* tests, leaf 0x12 SGX_MISCSELECT and leaf 0x18 DAT_ENUM.
C11_EveryBitTestAppendsOneEntry ==
    Returns("features") =>
        /\ StdSupported(1) =>
              \A r \in 1..Len(detect_leaf1_ecx_feature_map) :
                  OneEntry(detect_leaf1_ecx_feature_map[r][2],
                           WBit(cpuid(LStd(1), 0).ecx, detect_leaf1_ecx_feature_map[r][1]) = 1)
        /\ StdSupported(36) =>
              /\ LastEntry("AVX10_128", Leaf7Sub3Rows, WBit(cpuid(LStd(36), 0).ebx, 16) = 1)
              /\ LastEntry("AVX10_256", Leaf7Sub3Rows, WBit(cpuid(LStd(36), 0).ebx, 17) = 1)
              /\ LastEntry("AVX10_512", Leaf7Sub3Rows, WBit(cpuid(LStd(36), 0).ebx, 18) = 1)
        /\ StdSupported(16) =>
              /\ OneEntry("RDT_L3_CAT", /\ WBit(cpuid(LStd(16), 0).ebx, 1) = 1
                                        /\ cpuid(LStd(16), 1).eax # Zero)
              /\ OneEntry("RDT_L3_CDP", /\ WBit(cpuid(LStd(16), 0).ebx, 1) = 1
                                        /\ WBit(cpuid(LStd(16), 1).ecx, 2) = 1)
              /\ OneEntry("RDT_L2_CAT", /\ WBit(cpuid(LStd(16), 0).ebx, 2) = 1
                                        /\ cpuid(LStd(16), 2).eax # Zero)
        /\ StdSupported(18) =>
              OneEntry("SGX_MISCSELECT", WBit(cpuid(LStd(18), 0).ebx, 0) = 1)
        /\ StdSupported(24) =>
              OneEntry("DAT_ENUM", cpuid(LStd(24), 0).eax # Zero)

\* The names looked up: those of the leaf 0x8000_0008 EBX table and of the
\* leaf 7 subleaf 1 and 3 tables (several of them are decoded from two
\* leaves), the AVX10 version names, and a name no table holds.
NamesLookedUp ==
    { Name(detect_amd_extended_ebx_features[r][2]) :
        r \in 1..Len(detect_amd_extended_ebx_features) }
    \cup { Name(detect_leaf7_sub1_ebx_features[r][2]) :
             r \in 1..Len(detect_leaf7_sub1_ebx_features) }
    \cup { Name(detect_leaf7_sub3_edx_features[r][2]) :
             r \in 1..Len(detect_leaf7_sub3_edx_features) }
    \cup { NameV("AVX10_V", 85), NameV("AVX10_V", 256), Name("NO_SUCH_FEATURE") }

\* PPIN as the hardware reports it: leaf 7 subleaf 1 EBX bit 0, and leaf
\* 0x8000_0008 EBX bit 23.
PpinLeaf7 == WBit(cpuid(LStd(7), 1).ebx, 0) = 1
PpinLeafExt8 == WBit(cpuid(LExt(8), 0).ebx, 23) = 1

\* C12: has_feature(name) is true iff some entry of that name is supported;
\* all_features keeps the entries in decode order (the rows of the leaf 1
\* ECX table come first, in table order) and keeps both PPIN entries, the
\* one of leaf 7 subleaf 1 before the one of leaf 0x8000_0008, each with
\* its own bit.
C12_HasFeatureIsAnySupportedEntry ==
    Returns("features") =>
        LET all == info.features.all_features
        IN  /\ \A name \in NamesLookedUp :
                  has_feature(info.features, name)
                      <=> { i \in 1..Len(all) : all[i].name = name /\ all[i].supported } # {}
            /\ StdSupported(1) =>
                  \A r \in 1..Len(detect_leaf1_ecx_feature_map) :
                      all[r].name = Name(detect_leaf1_ecx_feature_map[r][2])
            /\ (StdSupported(7) /\ ExtSupported(8)) =>
                  /\ Cardinality(EntriesNamed("PPIN")) = 2
                  /\ \E i, j \in EntriesNamed("PPIN") :
                        /\ i < j
                        /\ all[i].category = "System" /\ all[i].supported = PpinLeaf7
                        /\ all[j].category = "Security" /\ all[j].supported = PpinLeafExt8
                  /\ has_feature(info.features, Name("PPIN")) = (PpinLeaf7 \/ PpinLeafExt8)

\* PPIN clear in leaf 7 and set in leaf 0x8000_0008: two entries, found.
C12_Witness ==
    /\ Returns("features")
    /\ StdSupported(7) /\ ExtSupported(8)
    /\ ~PpinLeaf7 /\ PpinLeafExt8
    /\ Cardinality(EntriesNamed("PPIN")) = 2
    /\ has_feature(info.features, Name("PPIN"))

\* The supported field of the last entry of this name.
LastSupported(name) ==
    \E i \in EntriesNamed(name) :
        /\ \A j \in EntriesNamed(name) : j <= i
        /\ info.features.all_features[i].supported

\* Some entry of this name is supported.
AnySupported(name) ==
    \E i \in EntriesNamed(name) : info.features.all_features[i].supported

\* The names the tables hold twice, and a name they hold once.
RepeatedNames ==
    { "STIBP", "SSBD", "FSRS", "FSRC", "PPIN", "PSFD", "PERFCTR_CORE", "PERFCTR_NB",
      "AVX10_128", "AVX10_256", "AVX10_512", "IBPB" }

\* C19 as stated: lookup by a name held by more than one entry returns the
\* supported field of the last decoded entry of that name.
C19_LookupReturnsTheLastEntry ==
    Returns("features") =>
        \A n \in RepeatedNames :
            Cardinality(EntriesNamed(n)) > 1 =>
                has_feature(info.features, Name(n)) = LastSupported(n)

\* C19 as amended: lookup by a name held by more than one entry returns
\* true iff one of these entries is supported, the last or an earlier one:
\* it is the last entry's field when that is true or when no earlier entry
\* is supported, and true otherwise.
C19_LookupReturnsAnySupportedEntry ==
    Returns("features") =>
        \A n \in RepeatedNames :
            Cardinality(EntriesNamed(n)) > 1 =>
                /\ has_feature(info.features, Name(n)) = AnySupported(n)
                /\ LastSupported(n) => has_feature(info.features, Name(n))
                /\ (~LastSupported(n) /\ has_feature(info.features, Name(n))) =>
                      \E i, j \in EntriesNamed(n) :
                          i < j /\ info.features.all_features[i].supported

\* PPIN set in leaf 7 and clear in leaf 0x8000_0008: the lookup is true
\* although the last entry is not supported.
C19_Witness ==
    /\ Returns("features")
    /\ Cardinality(EntriesNamed("PPIN")) = 2
    /\ PpinLeaf7 /\ ~PpinLeafExt8
    /\ ~LastSupported("PPIN")
    /\ has_feature(info.features, Name("PPIN"))

\* A bit table as the hardware presents it: whether its leaf is supported,
\* the register its rows test, and whether a row is supported when its bit
\* is set (TRUE) or clear (FALSE).
BitTable(sup, reg, rows, when_set) ==
    [ sup |-> sup, reg |-> reg, rows |-> rows, when_set |-> when_set ]

\* The 25 bit tables of the feature decoder in decode order.
BitTables ==
    << BitTable(StdSupported(1), cpuid(LStd(1), 0).ecx, detect_leaf1_ecx_feature_map, TRUE),
       BitTable(StdSupported(7), cpuid(LStd(7), 0).ebx, detect_leaf7_ebx_features, TRUE),
       BitTable(StdSupported(7), cpuid(LStd(7), 0).ecx, detect_leaf7_ecx_features, TRUE),
       BitTable(StdSupported(7), cpuid(LStd(7), 0).edx, detect_leaf7_edx_features, TRUE),
       BitTable(StdSupported(7), cpuid(LStd(7), 1).eax, detect_leaf7_sub1_eax_features, TRUE),
       BitTable(StdSupported(7), cpuid(LStd(7), 1).ebx, detect_leaf7_sub1_ebx_features, TRUE),
       BitTable(StdSupported(7), cpuid(LStd(7), 1).edx, detect_leaf7_sub1_edx_features, TRUE),
       BitTable(StdSupported(7), cpuid(LStd(7), 2).edx, detect_leaf7_sub2_edx_features, TRUE),
       BitTable(StdSupported(7), cpuid(LStd(7), 3).edx, detect_leaf7_sub3_edx_features, TRUE),
       BitTable(StdSupported(6), cpuid(LStd(6), 0).eax, detect_thermal_power_eax_features, TRUE),
       BitTable(StdSupported(6), cpuid(LStd(6), 0).ecx, detect_thermal_power_ecx_features, TRUE),
       BitTable(StdSupported(10), cpuid(LStd(10), 0).ebx, detect_perfmon_ebx_features, FALSE),
       BitTable(StdSupported(10), cpuid(LStd(10), 0).edx, detect_perfmon_edx_features, TRUE),
       BitTable(StdSupported(16), cpuid(LStd(16), 0).ebx, detect_rdt_ebx_features, TRUE),
       BitTable(StdSupported(18), cpuid(LStd(18), 0).eax, detect_sgx_extended_eax_features, TRUE),
       BitTable(ExtSupported(1), cpuid(LExt(1), 0).edx, detect_extended_features_edx_features, TRUE),
       BitTable(ExtSupported(1), cpuid(LExt(1), 0).ecx, detect_extended_features_ecx_features, TRUE),
       BitTable(ExtSupported(8), cpuid(LExt(8), 0).ebx, detect_amd_extended_ebx_features, TRUE),
       BitTable(ExtSupported(8), cpuid(LExt(8), 0).ecx, detect_amd_extended_ecx_features, TRUE),
       BitTable(ExtSupported(10), cpuid(LExt(10), 0).edx, detect_amd_svm_edx_features, TRUE),
       BitTable(ExtSupported(26), cpuid(LExt(26), 0).eax,
                detect_amd_perf_optimization_eax_features, TRUE),
       BitTable(ExtSupported(31), cpuid(LExt(31), 0).eax,
                detect_amd_memory_encryption_eax_features, TRUE),
       BitTable(ExtSupported(33), cpuid(LExt(33), 0).eax,
                detect_amd_extended_features2_eax_features, TRUE),
       BitTable(StdSupported(13), cpuid(LStd(13), 1).eax, detect_intel_specific_eax_features, TRUE),
       BitTable(StdSupported(20), cpuid(LStd(20), 0).ebx, detect_intel_specific_pt_features, TRUE) >>

\* The rows of the supported tables in decode order, each with the value
\* its entry is to record.
RECURSIVE RowsExpected(_)
RowsExpected(tables) ==
    IF tables = << >> THEN << >>
    ELSE LET t == Head(tables)
         IN  (IF t.sup
              THEN [r \in 1..Len(t.rows) |->
                       [ name      |-> Name(t.rows[r][2]),
                         category  |-> t.rows[r][3],
                         supported |-> (WBit(t.reg, t.rows[r][1]) = 1) = t.when_set ]]
              ELSE << >>)
             \o RowsExpected(Tail(tables))

\* C18: a PERFMON_* event row of leaf 0xA EBX bits 0..6 is recorded
\* supported iff its bit is clear, and a row of any other bit table, leaf
\* 0xA EDX included, iff its bit is set: the k-th row of a name among the
\* rows of the supported tables is the k-th entry of that name.
C18_OnlyPerfmonEbxIsInverted ==
    Returns("features") =>
        LET rows == RowsExpected(BitTables)
            all  == info.features.all_features
        IN  \A k \in 1..Len(rows) :
                \E i \in 1..Len(all) :
                    /\ all[i].name = rows[k].name
                    /\ Cardinality({ e \in 1..i : all[e].name = rows[k].name })
                           = Cardinality({ j \in 1..k : rows[j].name = rows[k].name })
                    /\ all[i].category = rows[k].category
                    /\ all[i].supported = rows[k].supported

\* Leaf 0xA with the even bits of EBX and EDX set: the event of bit 0 is
\* not supported, the event of bit 1 is, and fixed counter 0 is.
C18_Witness ==
    /\ Returns("features")
    /\ StdSupported(10)
    /\ cpuid(LStd(10), 0).ebx = W(\h5555, \h5555)
    /\ cpuid(LStd(10), 0).edx = W(\h5555, \h5555)
    /\ OneEntry("PERFMON_CORE_CYCLES", FALSE)
    /\ OneEntry("PERFMON_INSTR_RETIRED", TRUE)
    /\ OneEntry("PERFMON_FIXED_CTR0", TRUE)
    /\ OneEntry("PERFMON_FIXED_CTR1", FALSE)

\* A leaf is within the maximum this hardware reports for its range.
LeafSupported(leaf) ==
    IF leaf.hi < 32768 THEN NumLe(leaf, Leaf0.eax) ELSE NumLe(leaf, LeafExt0.eax)

\* Every flag of a record of booleans is false (the one count of PowerInfo
\* is 0).
AllFlagsFalse(r) ==
    \A f \in DOMAIN r :
        IF f = "num_interrupt_thresholds" THEN r[f] = 0 ELSE r[f] = FALSE

\* The outputs of the decoders keep their defaults when their leaves are
\* not supported.
DefaultsKept ==
    /\ (Returns("address") /\ ~ExtSupported(8)) =>
          info.address = [ physical_bits |-> 36, virtual_bits |-> 48,
                           guest_physical_bits |-> None ]
    /\ (Returns("frequency") /\ ~StdSupported(22)) =>
          /\ info.frequency.base_mhz = None
          /\ info.frequency.max_mhz = None
          /\ info.frequency.bus_mhz = None
    /\ (Returns("frequency") /\ ~StdSupported(21)) => info.frequency.tsc_mhz = None
    /\ (Returns("cache") /\ ~StdSupported(4) /\ ~ExtSupported(5)) => info.cache = << >>
    /\ (Returns("topology") /\ ~StdSupported(1)) =>
          info.topology = [ logical_processors |-> 1, physical_cores |-> 1,
                            threads_per_core |-> 1, has_hyperthreading |-> FALSE,
                            hybrid |-> FALSE ]
    /\ (Returns("power") /\ ~StdSupported(1)) => AllFlagsFalse(info.power)
    /\ (Returns("msr") /\ ~StdSupported(1)) => AllFlagsFalse(info.msr)
    /\ Returns("features") =>
          /\ ~StdSupported(1) => info.features.basic = {}
          /\ LET tables == BitTables
                 rows   == RowsExpected(tables)
             IN  \A t \in 1..Len(tables) :
                     ~tables[t].sup =>
                         \A r \in 1..Len(tables[t].rows) :
                             Cardinality(EntriesNamed(tables[t].rows[r][2]))
                                 <= Cardinality({ j \in 1..Len(rows) :
                                                    rows[j].name = Name(tables[t].rows[r][2]) })

\* C13: a decoder executes CPUID on no leaf that is above the maximum of
\* its range (leaf 0 and leaf 0x8000_0000, which report the maxima, aside),
\* and the outputs that depend on such a leaf keep their defaults.
C13_UnsupportedLeavesAreNotProbed ==
    /\ \A i \in 1..Len(trace) :
          (trace[i].op = "cpuid" /\ trace[i].leaf \notin { LStd(0), LExt(0) }) =>
              LeafSupported(trace[i].leaf)
    /\ DefaultsKept

\* The events the step being taken appends to the trace.
StepEvents == SubSeq(trace', Len(trace) + 1, Len(trace'))

\* The step being taken executes CPUID on this leaf.
StepProbes(leaf) ==
    \E i \in 1..Len(StepEvents) : StepEvents[i].op = "cpuid" /\ StepEvents[i].leaf = leaf

\* The level and type of the entries the legacy leaves describe: L1 data
\* and instruction (leaf 0x8000_0005 ECX, EDX bits 31:24 non-zero), L2 and
\* L3 (leaf 0x8000_0006 ECX bits 31:16, EDX bits 31:18 non-zero, when that
\* leaf is supported).
LegacyEntries ==
    LET r5 == cpuid(LExt(5), 0)
        r6 == cpuid(LExt(6), 0)
    IN  SelectSeq(<< [ level |-> 1, cache_type |-> "Data",
                       present |-> BitField(r5.ecx, 24, 31) > 0 ],
                     [ level |-> 1, cache_type |-> "Instruction",
                       present |-> BitField(r5.edx, 24, 31) > 0 ],
                     [ level |-> 2, cache_type |-> "Unified",
                       present |-> ExtSupported(6) /\ BitField(r6.ecx, 16, 31) > 0 ],
                     [ level |-> 3, cache_type |-> "Unified",
                       present |-> ExtSupported(6) /\ BitField(r6.edx, 18, 31) > 0 ] >>,
                  LAMBDA e : e.present)

\* C14: detect_all uses one wire format. With leaf 4 supported it executes
\* CPUID on neither legacy leaf and returns the entries of the leaf 4 walk,
\* none when the walk yields none; otherwise, with leaf 0x8000_0005
\* supported, it does not execute CPUID on leaf 4 and returns the legacy
\* entries; otherwise it returns the empty list.
C14_OneCacheFormatPerPass ==
    [][pc = "cache" =>
         /\ Leaf4Supported =>
               /\ ~StepProbes(LExt(5)) /\ ~StepProbes(LExt(6))
               /\ pc' = "power" =>
                     /\ Len(info'.cache) = Len(Leaf4Entries)
                     /\ \A k \in 1..Len(Leaf4Entries) :
                           /\ info'.cache[k].level = Leaf4Level(Leaf4Entries[k])
                           /\ info'.cache[k].cache_type =
                                  CASE Leaf4Type(Leaf4Entries[k]) = 1 -> "Data"
                                    [] Leaf4Type(Leaf4Entries[k]) = 2 -> "Instruction"
                                    [] Leaf4Type(Leaf4Entries[k]) = 3 -> "Unified"
         /\ (~Leaf4Supported /\ ExtSupported(5)) =>
               /\ ~StepProbes(LStd(4))
               /\ pc' = "power" =>
                     /\ Len(info'.cache) = Len(LegacyEntries)
                     /\ \A k \in 1..Len(LegacyEntries) :
                           /\ info'.cache[k].level = LegacyEntries[k].level
                           /\ info'.cache[k].cache_type = LegacyEntries[k].cache_type
                           /\ info'.cache[k].shared_by = 1
         /\ (~Leaf4Supported /\ ~ExtSupported(5)) =>
               /\ ~StepProbes(LStd(4)) /\ ~StepProbes(LExt(5)) /\ ~StepProbes(LExt(6))
               /\ pc' = "power" /\ info'.cache = << >>
      ]_vars

\* Leaf 4 is supported and its first subleaf ends the walk, the legacy
\* leaves describe four caches: the list is empty.
C14_Witness ==
    /\ Returns("cache")
    /\ Leaf4Supported
    /\ Leaf4Type(0) = 0
    /\ ExtSupported(6)
    /\ Len(LegacyEntries) = 4
    /\ info.cache = << >>

\* The associativity a legacy L2-TLB code stands for: "Disabled", "Fully"
\* or "<n>-way".
AssocL2Table ==
    (0 :> Text("Disabled")) @@ (1 :> Way(1)) @@ (2 :> Way(2)) @@ (4 :> Way(4))
    @@ (6 :> Way(8)) @@ (8 :> Way(16)) @@ (10 :> Way(32)) @@ (11 :> Way(48))
    @@ (12 :> Way(64)) @@ (13 :> Way(96)) @@ (14 :> Way(128)) @@ (15 :> Text("Fully"))

\* The four 16-bit lanes of a register pair EAX/EBX in decode order, and
\* those of them that are not zero.
Lanes(r) ==
    << [ lane |-> BitField(r.eax, 16, 31), page_size |-> "2M/4M", kind |-> "Data" ],
       [ lane |-> BitField(r.eax, 0, 15),  page_size |-> "2M/4M", kind |-> "Instruction" ],
       [ lane |-> BitField(r.ebx, 16, 31), page_size |-> "4K",    kind |-> "Data" ],
       [ lane |-> BitField(r.ebx, 0, 15),  page_size |-> "4K",    kind |-> "Instruction" ] >>

NonZeroLanes(r) == SelectSeq(Lanes(r), LAMBDA l : l.lane # 0)

\* The number of entries the L1 lanes (leaf 0x8000_0005) put before the L2
\* ones.
L1Entries == IF ExtSupported(5) THEN Len(NonZeroLanes(cpuid(LExt(5), 0))) ELSE 0

\* C15: with leaf 0x8000_0006 supported, each non-zero 16-bit lane of its
\* EAX/EBX gives one L2 entry, in lane order, whose entry count is bits
\* 11:0 of the lane and whose associativity is the table's text for bits
\* 15:12: 0 Disabled, 1, 2, 4 -> 1-, 2-, 4-way, 6 -> 8-way, 8 -> 16-way,
\* 0xA..0xE -> 32-, 48-, 64-, 96-, 128-way, 0xF -> Fully.
C15_L2TlbAssociativityTable ==
    (Returns("tlb") /\ ExtSupported(6)) =>
        LET lanes == NonZeroLanes(cpuid(LExt(6), 0))
        IN  /\ Len(info.tlb.entries) >= L1Entries + Len(lanes)
            /\ \A k \in 1..Len(lanes) :
                  LET e == info.tlb.entries[L1Entries + k]
                  IN  /\ e.tlb_type = TlbType(2, lanes[k].kind)
                      /\ e.page_size = lanes[k].page_size
                      /\ e.entries = WOfInt(lanes[k].lane % 4096)
                      /\ (lanes[k].lane \div 4096) \in DOMAIN AssocL2Table =>
                            e.associativity = AssocL2Table[lanes[k].lane \div 4096]

\* Lanes 0x6040, 0x9200, 0x6000, 0x6FFF: code 6 is "8-way" with 64 entries
\* and with none, and the last lane has 4095 entries.
C15_Witness ==
    /\ Returns("tlb")
    /\ ExtSupported(6)
    /\ ~ExtSupported(7)
    /\ cpuid(LExt(6), 0).eax = W(\h6040, \h9200)
    /\ cpuid(LExt(6), 0).ebx = W(\h6000, \h6FFF)
    /\ info.tlb.entries[L1Entries + 1].associativity = Way(8)
    /\ info.tlb.entries[L1Entries + 1].entries = WOfInt(64)
    /\ info.tlb.entries[L1Entries + 3].associativity = Way(8)
    /\ info.tlb.entries[L1Entries + 3].entries = Zero
    /\ info.tlb.entries[L1Entries + 4].entries = WOfInt(4095)

\* C16: in a detection pass only the first is_leaf_supported call executes
\* CPUID on leaf 0 or leaf 0x8000_0000; no later call is answered after a
\* new execution on either leaf.
C16_GateProbesTheMaximaOnce ==
    \A j \in 2..Len(trace) :
        (trace[j].op = "gate" /\ \E i \in 1..(j - 1) : trace[i].op = "gate") =>
            ~(trace[j - 1].op = "cpuid" /\ trace[j - 1].leaf \in { LStd(0), LExt(0) })

\* C20: with leaf 0xB unsupported, logical_processors is leaf 1 EBX[23:16]
\* (1 without leaf 1), replaced by physical_cores when it is 1 and leaf 1
\* EDX bit 28 is clear; physical_cores is leaf 4 subleaf 0 EAX[31:26] + 1
\* (1 without leaf 4); threads_per_core is the quotient of the two rounded
\* down; and the decoder returns (no division by zero).
C20_FallbackTopology ==
    ~LeafBSupported =>
        /\ (Decoded("features") /\ pc # "topology") => Decoded("topology")
        /\ Returns("topology") =>
              LET count == IF StdSupported(1) THEN BitField(cpuid(LStd(1), 0).ebx, 16, 23)
                           ELSE 1
                  htt   == StdSupported(1) /\ WBit(cpuid(LStd(1), 0).edx, 28) = 1
                  cores == IF StdSupported(4) THEN BitField(cpuid(LStd(4), 0).eax, 26, 31) + 1
                           ELSE 1
                  logical == IF count = 1 /\ ~htt THEN cores ELSE count
              IN  /\ info.topology.logical_processors = logical
                  /\ info.topology.physical_cores = cores
                  /\ cores >= 1
                  /\ info.topology.threads_per_core = logical \div cores
                  /\ info.topology.has_hyperthreading = htt

\* Leaf 1 reports one logical processor with hyperthreading off, leaf 4
\* eight cores: 8 logical processors, 8 cores, 1 thread per core.
C20_Witness ==
    /\ Returns("topology")
    /\ ~LeafBSupported
    /\ StdSupported(4)
    /\ BitField(cpuid(LStd(1), 0).ebx, 16, 23) = 1
    /\ WBit(cpuid(LStd(1), 0).edx, 28) = 0
    /\ BitField(cpuid(LStd(4), 0).eax, 26, 31) = 7
    /\ info.topology.logical_processors = 8
    /\ info.topology.physical_cores = 8
    /\ info.topology.threads_per_core = 1

\* The number of leaf 4 subleaves the deterministic walk executes CPUID on:
\* up to and including the first subleaf of type 0, 32 at most.
RECURSIVE Leaf4Visited(_)
Leaf4Visited(i) ==
    IF i >= LEAF_4_SUBLEAVES THEN LEAF_4_SUBLEAVES
    ELSE IF Leaf4Type(i) = 0 THEN i + 1
    ELSE Leaf4Visited(i + 1)

\* The last n events of the trace are CPUID executions on subleaves
\* 0 .. n - 1 of `leaf` in order, right after the gate's answer `ok`.
WalkEnds(leaf, n, ok) ==
    /\ Len(trace) > n
    /\ trace[Len(trace) - n] = GateEv(leaf, ok)
    /\ \A k \in 1..n : trace[Len(trace) - n + k] = ProbeEv(leaf, k - 1)

\* C21: with leaf 4 supported the cache decoder returns after executing
\* CPUID on subleaves 0, 1, 2, ... of leaf 4 in order up to the first one
\* whose EAX[4:0] is 0; every visited subleaf of type 1..3 and level 1..4
\* gives one entry, in subleaf order, with that type and level,
\* ways = EBX[31:22] + 1, line_size = EBX[11:0] + 1, sets = ECX + 1 and
\* shared_by = EAX[25:14] + 1, and no other subleaf gives an entry.
C21_DeterministicWalk ==
    Leaf4Supported =>
        /\ (Decoded("topology") /\ pc # "cache") => Decoded("cache")
        /\ Returns("cache") =>
              /\ WalkEnds(LStd(4), Leaf4Visited(0), TRUE)
              /\ Len(info.cache) = Len(Leaf4Entries)
              /\ \A k \in 1..Len(Leaf4Entries) :
                    LET r == cpuid(LStd(4), Leaf4Entries[k])
                        e == info.cache[k]
                    IN  /\ e.level = Leaf4Level(Leaf4Entries[k])
                        /\ e.cache_type =
                               CASE Leaf4Type(Leaf4Entries[k]) = 1 -> "Data"
                                 [] Leaf4Type(Leaf4Entries[k]) = 2 -> "Instruction"
                                 [] Leaf4Type(Leaf4Entries[k]) = 3 -> "Unified"
                        /\ e.ways = BitField(r.ebx, 22, 31) + 1
                        /\ e.line_size = BitField(r.ebx, 0, 11) + 1
                        /\ BnOfWord(e.sets) = BnAdd(BnOfWord(r.ecx), << 1 >>)
                        /\ e.shared_by = BitField(r.eax, 14, 25) + 1

\* The four lanes of the legacy cache leaves in the order they are decoded,
\* with the size in bytes, the ways and the line size each one holds, and
\* whether its leaf is supported.
LegacyLanes ==
    LET r5 == cpuid(LExt(5), 0)
        r6 == cpuid(LExt(6), 0)
        KB(n) == BnMul(BnOfInt(n), BnOfInt(1024))
    IN  << [ level |-> 1, cache_type |-> "Data", read |-> ExtSupported(5),
             size |-> KB(BitField(r5.ecx, 24, 31)),
             ways |-> BitField(r5.ecx, 16, 23), line_size |-> BitField(r5.ecx, 0, 7) ],
           [ level |-> 1, cache_type |-> "Instruction", read |-> ExtSupported(5),
             size |-> KB(BitField(r5.edx, 24, 31)),
             ways |-> BitField(r5.edx, 16, 23), line_size |-> BitField(r5.edx, 0, 7) ],
           [ level |-> 2, cache_type |-> "Unified", read |-> ExtSupported(6),
             size |-> KB(BitField(r6.ecx, 16, 31)),
             ways |-> BitField(r6.ecx, 12, 15), line_size |-> BitField(r6.ecx, 0, 7) ],
           [ level |-> 3, cache_type |-> "Unified", read |-> ExtSupported(6),
             size |-> KB(BitField(r6.edx, 18, 31) * 512),
             ways |-> BitField(r6.edx, 12, 15), line_size |-> BitField(r6.edx, 0, 7) ] >>

\* The lanes an entry is due for: those of a supported leaf with a size.
LegacyEmitted == SelectSeq(LegacyLanes, LAMBDA l : l.read /\ l.size # << >>)

\* q is floor(n / d) for wide naturals: q * d <= n < (q + 1) * d.
IsFloorQuotient(q, n, d) ==
    /\ BnLe(BnMul(q, d), n)
    /\ ~BnLe(BnMul(BnAdd(q, << 1 >>), d), n)

\* C22: on the legacy cache path (leaf 4 unsupported, leaf 0x8000_0005
\* supported) the decoder returns one entry for every lane of non-zero size,
\* in the order L1D, L1I, L2, L3, with the lane's size, ways and line size,
\* shared_by = 1 and sets = floor(size / (ways * line_size)).
C22_LegacySetsAreTheFloorQuotient ==
    (~Leaf4Supported /\ ExtSupported(5)) =>
        /\ (Decoded("topology") /\ pc # "cache") => Decoded("cache")
        /\ Returns("cache") =>
              /\ Len(info.cache) = Len(LegacyEmitted)
              /\ \A k \in 1..Len(LegacyEmitted) :
                    LET l == LegacyEmitted[k]
                        e == info.cache[k]
                    IN  /\ e.level = l.level
                        /\ e.cache_type = l.cache_type
                        /\ e.size = l.size
                        /\ e.ways = l.ways
                        /\ e.line_size = l.line_size
                        /\ e.shared_by = 1
                        /\ IsFloorQuotient(BnOfWord(e.sets), l.size,
                                           BnOfInt(l.ways * l.line_size))

\* Leaf 0x18 is in the standard range of this hardware.
Leaf18Supported == StdSupported(24)

\* The TLB type in EDX[4:0] of subleaf i of leaf 0x18.
Leaf18Type(i) == BitField(cpuid(LStd(24), i).edx, 0, 4)

\* The number of leaf 0x18 subleaves the deterministic walk executes CPUID
\* on: up to and including the first subleaf whose EAX is zero, 10 at most.
RECURSIVE Leaf18Visited(_)
Leaf18Visited(i) ==
    IF i >= LEAF_18_SUBLEAVES THEN LEAF_18_SUBLEAVES
    ELSE IF cpuid(LStd(24), i).eax = Zero THEN i + 1
    ELSE Leaf18Visited(i + 1)

\* The subleaves of leaf 0x18 the walk makes an entry of: those below 10 of
\* type 1..3 that no subleaf with a zero EAX precedes.
Leaf18Entries ==
    SelectSeq([k \in 1..LEAF_18_SUBLEAVES |-> k - 1],
              LAMBDA i : /\ \A j \in 0..i : cpuid(LStd(24), j).eax # Zero
                         /\ Leaf18Type(i) \in 1..3)

\* The number of entries the legacy lanes put before those of leaf 0x18.
LegacyTlbEntries ==
    L1Entries + (IF ExtSupported(6) THEN Len(NonZeroLanes(cpuid(LExt(6), 0))) ELSE 0)

\* C23: with leaf 0x18 supported the TLB decoder returns after executing
\* CPUID on subleaves 0, 1, 2, ... of leaf 0x18 up to the first one whose EAX
\* is zero; every visited subleaf of type EDX[4:0] in 1..3 gives one entry,
\* in subleaf order, labelled with level EDX[7:5] and Data, Instruction or
\* Unified, with the page size of EBX[1:0] (4K, 2M, 4M, 1G), entries equal
\* to the exact product EBX[31:16] * ECX, and associativity "Fully" for
\* ways 0xFFFF and "<ways>-way" otherwise; no other subleaf gives an entry.
C23_DeterministicTlbWalk ==
    Leaf18Supported =>
        /\ (Decoded("address") /\ pc # "tlb") => Decoded("tlb")
        /\ Returns("tlb") =>
              /\ WalkEnds(LStd(24), Leaf18Visited(0), TRUE)
              /\ Len(info.tlb.entries) = LegacyTlbEntries + Len(Leaf18Entries)
              /\ \A k \in 1..Len(Leaf18Entries) :
                    LET r == cpuid(LStd(24), Leaf18Entries[k])
                        e == info.tlb.entries[LegacyTlbEntries + k]
                        ways == BitField(r.ebx, 16, 31)
                    IN  /\ e.tlb_type =
                               TlbType(BitField(r.edx, 5, 7),
                                       CASE Leaf18Type(Leaf18Entries[k]) = 1 -> "Data"
                                         [] Leaf18Type(Leaf18Entries[k]) = 2 -> "Instruction"
                                         [] Leaf18Type(Leaf18Entries[k]) = 3 -> "Unified")
                        /\ e.page_size = CASE BitField(r.ebx, 0, 1) = 0 -> "4K"
                                           [] BitField(r.ebx, 0, 1) = 1 -> "2M"
                                           [] BitField(r.ebx, 0, 1) = 2 -> "4M"
                                           [] BitField(r.ebx, 0, 1) = 3 -> "1G"
                        /\ BnOfWord(e.entries) = BnMul(BnOfInt(ways), BnOfWord(r.ecx))
                        /\ e.associativity = IF ways = 65535 THEN Text("Fully") ELSE Way(ways)

\* The positions of the trace at which CPUID was executed on `leaf`.
ProbesOf(leaf) == { i \in 1..Len(trace) : trace[i].op = "cpuid" /\ trace[i].leaf = leaf }

\* The CPUID executions on `leaf` since the last is_leaf_supported(leaf).
ProbesSinceGate(leaf) ==
    { i \in ProbesOf(leaf) :
        \A j \in (i + 1)..Len(trace) : ~(trace[j].op = "gate" /\ trace[j].leaf = leaf) }

\* The executions on `leaf` form at most `walks` walks over subleaves
\* 0, 1, 2, ..., each of fewer than `limit` + 1 executions.
WalksBounded(leaf, walks, limit) ==
    /\ Cardinality({ i \in ProbesOf(leaf) : trace[i].subleaf = 0 }) <= walks
    /\ \A i \in ProbesOf(leaf) :
          /\ trace[i].subleaf < limit
          /\ trace[i].subleaf > 0 => trace[i - 1] = ProbeEv(leaf, trace[i].subleaf - 1)

\* The pass is over: CpuInfo::detect has returned or a panic has unwound it.
Terminated == ~NextEnabled

\* The three subleaf walks stay within their ranges.
WalksAreBounded ==
    /\ (Decoded("topology") \/ pc = "panic") => WalksBounded(LStd(11), 2, 10)
    /\ Returns("cache") =>
          /\ Cardinality(ProbesSinceGate(LStd(4))) <= 32
          /\ Len(info.cache) <= 32
    /\ Returns("tlb") => Cardinality(ProbesSinceGate(LStd(24))) <= 10
    /\ pc = "panic" =>
          /\ Cardinality(ProbesSinceGate(LStd(4))) <= 32
          /\ Cardinality(ProbesSinceGate(LStd(24))) <= 10

\* C24: every detection pass ends, also on hardware that never reports a
\* terminating subleaf, and until then the cache walk executes CPUID on leaf
\* 4 at most 32 times and returns at most 32 entries, each of the two
\* topology walks executes it on leaf 0xB at most 10 times, and the TLB walk
\* executes it on leaf 0x18 at most 10 times.
C24_DetectTerminatesWithinTheWalkLimits == <>Terminated /\ []WalksAreBounded

\* The pass has returned on hardware whose subleaf 32 of leaf 4, subleaf 10
\* of leaf 0xB and subleaf 10 of leaf 0x18 still do not end the walk: 32
\* cache entries, 20 executions on leaf 0xB and 10 on leaf 0x18 after its gate.
C24_Witness ==
    /\ pc = "done"
    /\ Leaf4Type(32) # 0
    /\ LevelTypeAt(10) = 5
    /\ cpuid(LStd(24), 10).eax # Zero
    /\ Len(info.cache) = 32
    /\ Cardinality(ProbesOf(LStd(11))) = 20
    /\ Cardinality(ProbesSinceGate(LStd(24))) = 10

\* C25: with leaf 0x15 supported and its EAX and EBX both non-zero, tsc_mhz
\* is Some(floor(crystal_hz * EBX / EAX / 1_000_000)) as an exact number,
\* where crystal_hz is ECX, or 24_000_000 when ECX is zero; with EAX or EBX
\* zero, or without the leaf, tsc_mhz is None.
C25_TscMhzIsTheExactQuotient ==
    Returns("frequency") =>
        LET r == cpuid(LStd(21), 0)
            crystal_hz == IF r.ecx # Zero THEN BnOfWord(r.ecx) ELSE BnOfInt(24000000)
        IN  IF StdSupported(21) /\ r.eax # Zero /\ r.ebx # Zero
            THEN /\ Len(info.frequency.tsc_mhz) = 1
                 /\ IsFloorQuotient(BnOfWord(info.frequency.tsc_mhz[1]),
                                    BnMul(crystal_hz, BnOfWord(r.ebx)),
                                    BnMul(BnOfWord(r.eax), BnOfInt(1000000)))
            ELSE info.frequency.tsc_mhz = None

\* The 48 bytes of the brand leaves: EAX, EBX, ECX, EDX of leaves
\* 0x8000_0002, 0x8000_0003, 0x8000_0004, each little-endian.
BrandBytes ==
    LET reg(k) == LET r == cpuid(LExt(2 + (k - 1) \div 16), 0)
                      q == ((k - 1) % 16) \div 4
                  IN  IF q = 0 THEN r.eax ELSE IF q = 1 THEN r.ebx
                      ELSE IF q = 2 THEN r.ecx ELSE r.edx
    IN  [ k \in 1..48 |-> ByteOf(reg(k), (k - 1) % 4) ]

\* A NUL or a whitespace character.
IsNulOrSpace(c) == c = 0 \/ is_whitespace(c)

\* s without its maximal suffix of NUL and whitespace characters.
RECURSIVE WithoutNulSpaceSuffix(_)
WithoutNulSpaceSuffix(s) ==
    IF s # << >> /\ IsNulOrSpace(s[Len(s)])
    THEN WithoutNulSpaceSuffix(SubSeq(s, 1, Len(s) - 1))
    ELSE s

\* C26: the brand string is the 48 bytes of EAX, EBX, ECX, EDX of leaves
\* 0x8000_0002..4 without their maximal suffix of NUL and whitespace
\* characters: it does not end in a NUL or a whitespace character and
\* nothing is removed from its front.
C26_BrandStringIsTheBytesWithoutTheSuffix ==
    Returns("vendor") =>
        LET s == info.vendor.brand_string
        IN  /\ as_bytes(s) = WithoutNulSpaceSuffix(BrandBytes)
            /\ s # << >> => ~IsNulOrSpace(s[Len(s)])

\* The bit positions of the flag constants FeatureSet defines.
FeatureSetBits == { FeatureSet_flags[i][2] : i \in 1..Len(FeatureSet_flags) }

\* C27: with leaf 1 supported, features.basic holds the flag FeatureSet
\* defines at bit b exactly when bit b of leaf 1 EDX is set, for every flag
\* FeatureSet defines, and nothing else; without leaf 1 it is empty.
C27_BasicMirrorsLeaf1Edx ==
    Returns("features") =>
        info.features.basic =
            IF StdSupported(1)
            THEN { b \in FeatureSetBits : WBit(cpuid(LStd(1), 0).edx, b) = 1 }
            ELSE {}

\* C28: every CpuTopology the decoder returns, on the leaf 0xB path and on
\* the fallback path, has logical_processors, physical_cores and
\* threads_per_core of at least 1.
C28_TopologyCountsArePositive ==
    Returns("topology") =>
        /\ info.topology.logical_processors >= 1
        /\ info.topology.physical_cores >= 1
        /\ info.topology.threads_per_core >= 1

\* C29: in the snapshot of one pass the fields decoded from the same
\* register bit agree: topology.hybrid with has_feature("HYBRID") (leaf 7
\* EDX bit 15), topology.has_hyperthreading with the HTT flag of
\* features.basic (leaf 1 EDX bit 28), and msr.msr_support with
\* platform.model_specific_registers and the MSR flag of features.basic
\* (leaf 1 EDX bit 5); hybrid is that bit on the leaf 0xB path and on the
\* fallback path alike.
C29_DecodersAgreeOnSharedBits ==
    Returns("msr") =>
        LET hybrid == StdSupported(7) /\ WBit(cpuid(LStd(7), 0).edx, 15) = 1
            htt    == StdSupported(1) /\ WBit(cpuid(LStd(1), 0).edx, 28) = 1
            msr    == StdSupported(1) /\ WBit(cpuid(LStd(1), 0).edx, 5) = 1
        IN  /\ info.topology.hybrid = has_feature(info.features, Name("HYBRID"))
            /\ info.topology.hybrid = hybrid
            /\ info.topology.has_hyperthreading
                   = (FeatureSet_bit("HTT") \in info.features.basic)
            /\ info.topology.has_hyperthreading = htt
            /\ info.msr.msr_support = info.platform.model_specific_registers
            /\ info.msr.msr_support = (FeatureSet_bit("MSR") \in info.features.basic)
            /\ info.msr.msr_support = msr

\* Leaf 7 is the highest standard leaf (the fallback topology path) and the
\* odd bits of every register are set: hybrid and MSR are reported by every
\* decoder that reads them, hyperthreading by none.
C29_Witness ==
    /\ Returns("msr")
    /\ ~LeafBSupported
    /\ StdSupported(7)
    /\ cpuid(LStd(1), 0).edx = W(\hAAAA, \hAAAA)
    /\ cpuid(LStd(7), 0).edx = W(\hAAAA, \hAAAA)
    /\ info.topology.hybrid
    /\ has_feature(info.features, Name("HYBRID"))
    /\ ~info.topology.has_hyperthreading
    /\ FeatureSet_bit("HTT") \notin info.features.basic
    /\ info.msr.msr_support
    /\ info.platform.model_specific_registers
    /\ FeatureSet_bit("MSR") \in info.features.basic

\* The highest subleaf of leaf 7 this hardware reports: EAX of leaf 7
\* subleaf 0.
Leaf7MaxSubleaf == cpuid(LStd(7), 0).eax

\* The names the tables of subleaf n of leaf 7 give their entries.
Leaf7SubleafNames(n) ==
    LET names(table) == { table[i][2] : i \in 1..Len(table) }
    IN  CASE n = 1 -> names(detect_leaf7_sub1_eax_features)
                      \cup names(detect_leaf7_sub1_ebx_features)
                      \cup names(detect_leaf7_sub1_edx_features)
          [] n = 2 -> names(detect_leaf7_sub2_edx_features)
          [] n = 3 -> names(detect_leaf7_sub3_edx_features)

\* C30: the feature decoder executes CPUID on subleaf n > 0 of leaf 7 only
\* when n is at most EAX of leaf 7 subleaf 0, and all_features holds no
\* entry of a table of a subleaf above that maximum (names that another
\* leaf's table also uses aside).
C30_Leaf7SubleavesAboveTheMaximumAreNotRead ==
    Returns("features") =>
        /\ \A i \in 1..Len(trace) :
              (trace[i].op = "cpuid" /\ trace[i].leaf = LStd(7) /\ trace[i].subleaf > 0) =>
                  NumLe(WOfInt(trace[i].subleaf), Leaf7MaxSubleaf)
        /\ \A n \in 1..3 :
              ~NumLe(WOfInt(n), Leaf7MaxSubleaf) =>
                  \A name \in Leaf7SubleafNames(n) \ RepeatedNames :
                      EntriesNamed(name) = {}

====
